---- MODULE Spec2Model ----
(***************************************************************************)
(* Day 21 of nesimer/advent-of-code-2024 (src/days/21/mod.ts): the minimal *)
(* number of key presses needed to type a code on a numeric pad through a  *)
(* chain of `layers` keypads, computed with a table of transition costs    *)
(* indexed by (layer, start key, end key).                                 *)
(*                                                                         *)
(* Strings are sequences of one-character strings.  The JavaScript value   *)
(* Infinity is the value Infinity below; a key that is absent from the Map *)
(* is absent from the DOMAIN of movementCosts (Map.get gives undefined).   *)
(***************************************************************************)
EXTENDS Integers, Sequences, FiniteSets, TLC

VARIABLES sequence, layers, pc, layer, keyboard, si, ei, movementCosts,
          result, callsLeft, first,
          disk, memory, wires, computer, guard, warehouse

(***************************************************************************)
(* The first eleven variables are the state of day 21.  Each of the other  *)
(* variables is the state of one other program of the repository, a record *)
(* of the locals of the function that runs: disk (src/days/9/mod.ts),      *)
(* memory (src/days/18/mod.ts), wires (src/days/24/mod.ts), computer       *)
(* (src/days/17/mod.ts), guard (src/days/1/main.ts) and warehouse          *)
(* (src/days/3/main.ts).  A program that does not run in a specification   *)
(* is Off there.                                                           *)
(***************************************************************************)
keypadVars == <<sequence, layers, pc, layer, keyboard, si, ei, movementCosts,
                result, callsLeft, first>>

otherPrograms == <<disk, memory, wires, computer, guard, warehouse>>

vars == <<keypadVars, otherPrograms>>

Off == [pc |-> "off"]

OtherProgramsOff ==
  /\ disk = Off /\ memory = Off /\ wires = Off
  /\ computer = Off /\ guard = Off /\ warehouse = Off

(***************************************************************************)
(* Bounds of the model.                                                    *)
(***************************************************************************)
MaxLen == 2
MaxLayers == 3
MaxCalls == 3

(***************************************************************************)
(* JavaScript numbers: Infinity, Math.min and + on costs.                  *)
(***************************************************************************)
Infinity == 0 - 1

JsAdd(a, b) == IF a = Infinity \/ b = Infinity THEN Infinity ELSE a + b

JsMin(a, b) ==
  IF a = Infinity THEN b
  ELSE IF b = Infinity THEN a
  ELSE IF a <= b THEN a ELSE b

Abs(n) == IF n < 0 THEN 0 - n ELSE n

(***************************************************************************)
(* createKeyboards: the rows of the two keypads; the key at column x of    *)
(* row y (both counted from 0) is at [x, y].  " " is the gap, and it is a  *)
(* key of the Map like the others.  KeysOf is the Map's iteration order.   *)
(***************************************************************************)
ArrowRows == << <<" ", "^", "A">>, <<"<", "v", ">">> >>

NumericRows == << <<"7", "8", "9">>, <<"4", "5", "6">>, <<"1", "2", "3">>,
                  <<" ", "0", "A">> >>

RECURSIVE FlatMap(_)
FlatMap(rows) == IF rows = <<>> THEN <<>> ELSE Head(rows) \o FlatMap(Tail(rows))

KeysOf(rows) == FlatMap(rows)

LayoutOf(rows) ==
  [k \in {rows[y][x] : y \in 1..Len(rows), x \in 1..Len(rows[1])} |->
     CHOOSE p \in {<<x - 1, y - 1>> : y \in 1..Len(rows), x \in 1..Len(rows[1])} :
        rows[p[2] + 1][p[1] + 1] = k]

createKeyboards == [arrows |-> ArrowRows, numerics |-> NumericRows]

arrows == LayoutOf(createKeyboards.arrows)

numerics == LayoutOf(createKeyboards.numerics)

Layout(kb) == IF kb = "arrows" THEN arrows ELSE numerics

Keys(kb) == KeysOf(createKeyboards[kb])

(***************************************************************************)
(* initMovements: every transition between two keys of the layout costs 1  *)
(* at layer 0.                                                             *)
(***************************************************************************)
initMovements_SelfFree(layout) ==
  [k \in {<<0, s, e>> : s \in DOMAIN layout, e \in DOMAIN layout} |->
     IF k[2] = k[3] THEN 0 ELSE 1]

initMovements(layout) ==
  [k \in {<<0, s, e>> : s \in DOMAIN layout, e \in DOMAIN layout} |-> 1]

(***************************************************************************)
(* createMoveSequence: |distance| copies of positiveChar or negativeChar.  *)
(***************************************************************************)
createMoveSequence_Flipped(distance, positiveChar, negativeChar) ==
  [n \in 1..Abs(distance) |-> IF distance > 0 THEN negativeChar ELSE positiveChar]

createMoveSequence(distance, positiveChar, negativeChar) ==
  [n \in 1..Abs(distance) |-> IF distance > 0 THEN positiveChar ELSE negativeChar]

(***************************************************************************)
(* isBlockedPath: the cell (x, y) is the gap.                              *)
(***************************************************************************)
isBlockedPath_Swapped(x, y, spacePos) == spacePos[1] = y /\ spacePos[2] = x

isBlockedPath_Or(x, y, spacePos) == spacePos[1] = x \/ spacePos[2] = y

isBlockedPath_Never(x, y, spacePos) == FALSE

isBlockedPath(x, y, spacePos) == spacePos[1] = x /\ spacePos[2] = y

(***************************************************************************)
(* countTotalPresses: the sum, for i = 0 .. sequence.length - 1, of the    *)
(* stored cost of the transition from ("A" + sequence)[i] to sequence[i];  *)
(* a transition whose cost is undefined (or 0) adds nothing.               *)
(***************************************************************************)
TransitionKey(l, seq, i) == <<l, (<<"A">> \o seq)[i], seq[i]>>

Truthy(costs, k) == k \in DOMAIN costs /\ costs[k] # 0

RECURSIVE PressesFrom(_, _, _, _, _)
PressesFrom(l, seq, costs, i, totalPresses) ==
  IF i > Len(seq) THEN totalPresses
  ELSE LET k == TransitionKey(l, seq, i)
       IN PressesFrom(l, seq, costs, i + 1,
                      IF Truthy(costs, k) THEN JsAdd(totalPresses, costs[k])
                      ELSE totalPresses)

countTotalPresses_NoHome(l, seq, costs) == PressesFrom(l, seq, costs, 2, 0)

countTotalPresses(l, seq, costs) == PressesFrom(l, seq, costs, 1, 0)

(***************************************************************************)
(* The body of the two nested loops of countMinimalKeyPresses for the pair *)
(* (startKey, endKey) of the layout kb at layer l: the two candidate costs *)
(* and the stored minimum.                                                 *)
(***************************************************************************)
horizontalMoves(layout, startKey, endKey) ==
  createMoveSequence(layout[endKey][1] - layout[startKey][1], ">", "<")

verticalMoves(layout, startKey, endKey) ==
  createMoveSequence(layout[endKey][2] - layout[startKey][2], "v", "^")

horizontalFirstCost_SameLayer(l, layout, startKey, endKey, costs) ==
  IF ~isBlockedPath(layout[endKey][1], layout[startKey][2], layout[" "])
  THEN countTotalPresses(l,
         horizontalMoves(layout, startKey, endKey)
           \o verticalMoves(layout, startKey, endKey) \o <<"A">>, costs)
  ELSE Infinity

horizontalFirstCost(l, layout, startKey, endKey, costs) ==
  IF ~isBlockedPath(layout[endKey][1], layout[startKey][2], layout[" "])
  THEN countTotalPresses(l - 1,
         horizontalMoves(layout, startKey, endKey)
           \o verticalMoves(layout, startKey, endKey) \o <<"A">>, costs)
  ELSE Infinity

verticalFirstCost(l, layout, startKey, endKey, costs) ==
  IF ~isBlockedPath(layout[startKey][1], layout[endKey][2], layout[" "])
  THEN countTotalPresses(l - 1,
         verticalMoves(layout, startKey, endKey)
           \o horizontalMoves(layout, startKey, endKey) \o <<"A">>, costs)
  ELSE Infinity

pairCost_FirstOpen(l, layout, startKey, endKey, costs) ==
  IF horizontalFirstCost(l, layout, startKey, endKey, costs) # Infinity
  THEN horizontalFirstCost(l, layout, startKey, endKey, costs)
  ELSE verticalFirstCost(l, layout, startKey, endKey, costs)

pairCost(l, layout, startKey, endKey, costs) ==
  JsMin(horizontalFirstCost(l, layout, startKey, endKey, costs),
        verticalFirstCost(l, layout, startKey, endKey, costs))

(***************************************************************************)
(* The keys that countTotalPresses(l, seq, costs) looks up (line 58), and  *)
(* the keys looked up by the body of the inner loop for the pair           *)
(* (startKey, endKey) of layer l (lines 95-101).                           *)
(***************************************************************************)
lookups(l, seq) == {TransitionKey(l, seq, i) : i \in 1..Len(seq)}

pairLookups(l, layout, startKey, endKey) ==
  (IF ~isBlockedPath(layout[endKey][1], layout[startKey][2], layout[" "])
   THEN lookups(l - 1, horizontalMoves(layout, startKey, endKey)
                         \o verticalMoves(layout, startKey, endKey) \o <<"A">>)
   ELSE {})
  \cup
  (IF ~isBlockedPath(layout[startKey][1], layout[endKey][2], layout[" "])
   THEN lookups(l - 1, verticalMoves(layout, startKey, endKey)
                         \o horizontalMoves(layout, startKey, endKey) \o <<"A">>)
   ELSE {})

MapSet(costs, k, v) == [x \in DOMAIN costs \cup {k} |-> IF x = k THEN v ELSE costs[x]]

(***************************************************************************)
(* Line 103: the entry of the pair (keys[i], keys[j]) of layer l is set.   *)
(***************************************************************************)
setPair_Symmetric(l, kb, i, j, costs) ==
  MapSet(MapSet(costs, <<l, Keys(kb)[i], Keys(kb)[j]>>,
                pairCost(l, Layout(kb), Keys(kb)[i], Keys(kb)[j], costs)),
         <<l, Keys(kb)[j], Keys(kb)[i]>>,
         pairCost(l, Layout(kb), Keys(kb)[i], Keys(kb)[j], costs))

setPair(l, kb, i, j, costs) ==
  MapSet(costs, <<l, Keys(kb)[i], Keys(kb)[j]>>,
         pairCost(l, Layout(kb), Keys(kb)[i], Keys(kb)[j], costs))

(***************************************************************************)
(* Lines 79-81: the keypad of layer l in a chain of n layers, kb being the *)
(* keypad of the layer before.                                             *)
(***************************************************************************)
keyboardAt_OneEarly(l, n, kb) == IF l >= n - 1 THEN "numerics" ELSE kb

keyboardAt_FirstLayer(l, n, kb) == IF l = 1 THEN "numerics" ELSE kb

keyboardAt(l, n, kb) == IF l = n THEN "numerics" ELSE kb

(***************************************************************************)
(* countMinimalKeyPresses as a function of its arguments.  fillLayer is    *)
(* the two nested loops of lines 83-105 run to completion: every entry of  *)
(* layer l is computed from the table as it was when the layer began.      *)
(* TableOf(n) is the table when line 108 is reached.                       *)
(***************************************************************************)
fillLayer(l, kb, costs) ==
  [k \in DOMAIN costs \cup {<<l, s, e>> : s \in DOMAIN Layout(kb), e \in DOMAIN Layout(kb)} |->
     IF k[1] = l /\ k[2] \in DOMAIN Layout(kb) /\ k[3] \in DOMAIN Layout(kb)
     THEN pairCost(l, Layout(kb), k[2], k[3], costs)
     ELSE costs[k]]

RECURSIVE FillLayers(_, _, _, _)
FillLayers(l, n, kb, costs) ==
  IF l > n THEN costs
  ELSE FillLayers(l + 1, n, keyboardAt(l, n, kb),
                  fillLayer(l, keyboardAt(l, n, kb), costs))

TableOf(n) == FillLayers(1, n, "arrows", initMovements(arrows))

Tables == [n \in 0..(MaxLayers + 1) |-> TableOf(n)]

countMinimalKeyPresses(seq, n) == countTotalPresses(n, seq, Tables[n])

(***************************************************************************)
(* The inputs: the codes of at most MaxLen characters over the keys of the *)
(* numeric pad, the two codes of the specification's examples, and codes   *)
(* with a character that is not a key of the numeric pad: "x" is on no     *)
(* keypad, "<" is a key of the directional pad only, " " is the gap.       *)
(* Chain depths are 0 .. MaxLayers.                                        *)
(***************************************************************************)
NumericKeys == {"0", "1", "2", "3", "4", "5", "6", "7", "8", "9", "A"}

Strings(chars, n) == UNION {[1..m -> chars] : m \in 0..n}

Example179A == <<"1", "7", "9", "A">>

Example029A == <<"0", "2", "9", "A">>

OtherTargets == {<<"x">>, <<"1", "x">>, <<"x", "A">>, <<"<">>, <<" ">>, <<" ", " ">>}

Targets == Strings(NumericKeys, MaxLen) \cup {Example179A, Example029A} \cup OtherTargets

CallTargets == {<<"A">>, <<"3", "7">>, Example029A}

(***************************************************************************)
(* The session: callsLeft is the number of calls main may still make, and  *)
(* first is a history variable: the arguments, the returned value and the  *)
(* final table of the first call that returned (NoCall before that).       *)
(***************************************************************************)
NoCall == [sequence |-> <<>>, layers |-> 0 - 1, result |-> 0, table |-> <<>>]

(***************************************************************************)
(* countMinimalKeyPresses(sequence, layers), one step per loop iteration.  *)
(*   pc = "layer" : at the head of `for (layer = 1; layer <= layers; ...)` *)
(*   pc = "pair"  : before the body of the inner loop for the pair         *)
(*                  (Keys(keyboard)[si], Keys(keyboard)[ei])               *)
(*   pc = "return": before line 108                                        *)
(*   pc = "done"  : returned `result`                                      *)
(***************************************************************************)
Enter_SharedTable(seq, n) ==
  /\ sequence' = seq
  /\ layers' = n
  /\ keyboard' = "arrows"
  /\ movementCosts' = movementCosts
  /\ layer' = 1
  /\ si' = 1
  /\ ei' = 1
  /\ result' = 0
  /\ pc' = "layer"

Enter(seq, n) ==
  /\ sequence' = seq
  /\ layers' = n
  /\ keyboard' = "arrows"
  /\ movementCosts' = initMovements(arrows)
  /\ layer' = 1
  /\ si' = 1
  /\ ei' = 1
  /\ result' = 0
  /\ pc' = "layer"

Init ==
  /\ sequence \in Targets
  /\ layers \in 0..MaxLayers
  /\ keyboard = "arrows"
  /\ movementCosts = initMovements(arrows)
  /\ layer = 1
  /\ si = 1
  /\ ei = 1
  /\ result = 0
  /\ pc = "layer"
  /\ callsLeft = 0
  /\ first = NoCall
  /\ OtherProgramsOff

InitCalls ==
  /\ sequence \in CallTargets
  /\ layers \in 0..MaxLayers
  /\ keyboard = "arrows"
  /\ movementCosts = initMovements(arrows)
  /\ layer = 1
  /\ si = 1
  /\ ei = 1
  /\ result = 0
  /\ pc = "layer"
  /\ callsLeft = MaxCalls - 1
  /\ first = NoCall
  /\ OtherProgramsOff

LayerHead ==
  /\ pc = "layer"
  /\ IF layer <= layers
     THEN /\ keyboard' = keyboardAt(layer, layers, keyboard)
          /\ si' = 1
          /\ ei' = 1
          /\ pc' = "pair"
     ELSE /\ pc' = "return"
          /\ UNCHANGED <<keyboard, si, ei>>
  /\ UNCHANGED <<sequence, layers, layer, movementCosts, result, callsLeft, first>>
  /\ UNCHANGED otherPrograms

PairBody_SameLayer ==
  /\ pc = "pair"
  /\ movementCosts' = setPair(layer, keyboard, si, ei, movementCosts)
  /\ IF ei < Len(Keys(keyboard))
     THEN /\ ei' = ei + 1
          /\ UNCHANGED <<si, layer, pc>>
     ELSE IF si < Len(Keys(keyboard))
     THEN /\ si' = si + 1
          /\ ei' = 1
          /\ UNCHANGED <<layer, pc>>
     ELSE /\ pc' = "layer"
          /\ UNCHANGED <<layer, si, ei>>
  /\ UNCHANGED <<sequence, layers, keyboard, result, callsLeft, first>>
  /\ UNCHANGED otherPrograms

PairBody ==
  /\ pc = "pair"
  /\ movementCosts' = setPair(layer, keyboard, si, ei, movementCosts)
  /\ IF ei < Len(Keys(keyboard))
     THEN /\ ei' = ei + 1
          /\ UNCHANGED <<si, layer, pc>>
     ELSE IF si < Len(Keys(keyboard))
     THEN /\ si' = si + 1
          /\ ei' = 1
          /\ UNCHANGED <<layer, pc>>
     ELSE /\ layer' = layer + 1
          /\ pc' = "layer"
          /\ UNCHANGED <<si, ei>>
  /\ UNCHANGED <<sequence, layers, keyboard, result, callsLeft, first>>
  /\ UNCHANGED otherPrograms

Return ==
  /\ pc = "return"
  /\ result' = countTotalPresses(layers, sequence, movementCosts)
  /\ pc' = "done"
  /\ first' = IF first = NoCall
              THEN [sequence |-> sequence, layers |-> layers,
                    result |-> countTotalPresses(layers, sequence, movementCosts),
                    table |-> movementCosts]
              ELSE first
  /\ UNCHANGED <<sequence, layers, layer, keyboard, si, ei, movementCosts, callsLeft>>
  /\ UNCHANGED otherPrograms

(***************************************************************************)
(* main: countMinimalKeyPresses is called again, for another code or depth.*)
(***************************************************************************)
Call ==
  /\ pc = "done"
  /\ callsLeft > 0
  /\ callsLeft' = callsLeft - 1
  /\ \E seq \in CallTargets, n \in 0..MaxLayers : Enter(seq, n)
  /\ UNCHANGED first
  /\ UNCHANGED otherPrograms

Next == LayerHead \/ PairBody \/ Return

NextCalls == Next \/ Call

Spec == Init /\ [][Next]_vars

SpecCalls == InitCalls /\ [][NextCalls]_vars

(***************************************************************************)
(* One call that runs to its end: the code is sequential, so a step that   *)
(* can be taken is taken.  The codes are the empty code, an example, a     *)
(* code with an unknown character and a code of gaps.                      *)
(***************************************************************************)
RunTargets ==
  {<<>>, Example029A, <<"1", "x">>, <<" ", " ">>}

InitRun ==
  /\ sequence \in RunTargets
  /\ layers \in 0..MaxLayers
  /\ keyboard = "arrows"
  /\ movementCosts = initMovements(arrows)
  /\ layer = 1
  /\ si = 1
  /\ ei = 1
  /\ result = 0
  /\ pc = "layer"
  /\ callsLeft = 0
  /\ first = NoCall
  /\ OtherProgramsOff

SpecRun == InitRun /\ [][Next]_vars /\ WF_vars(Next)

(***************************************************************************)
(* Explicit expansion, independent of the cost table.  A press string is   *)
(* walked cell by cell from the start key; a grouping (the horizontal run  *)
(* then the vertical run, or the reverse) is kept when none of the cells   *)
(* it visits is the gap.  Expand gives every string that types S on the    *)
(* keypad kb with the arm starting on "A"; ExpandLayers applies it through *)
(* the numeric pad and then through n - 1 directional pads.                *)
(***************************************************************************)
Delta(c) ==
  IF c = ">" THEN <<1, 0>>
  ELSE IF c = "<" THEN <<0 - 1, 0>>
  ELSE IF c = "v" THEN <<0, 1>>
  ELSE IF c = "^" THEN <<0, 0 - 1>>
  ELSE <<0, 0>>

RECURSIVE PathCells(_, _)
PathCells(p, moves) ==
  IF moves = <<>> THEN {p}
  ELSE {p} \cup PathCells(<<p[1] + Delta(Head(moves))[1], p[2] + Delta(Head(moves))[2]>>,
                          Tail(moves))

Run(n, c) == [i \in 1..n |-> c]

RunH(layout, s, e) ==
  Run(Abs(layout[e][1] - layout[s][1]), IF layout[e][1] > layout[s][1] THEN ">" ELSE "<")

RunV(layout, s, e) ==
  Run(Abs(layout[e][2] - layout[s][2]), IF layout[e][2] > layout[s][2] THEN "v" ELSE "^")

OpenGroupings(layout, s, e) ==
  {g \o <<"A">> : g \in {m \in {RunH(layout, s, e) \o RunV(layout, s, e),
                                RunV(layout, s, e) \o RunH(layout, s, e)} :
                          layout[" "] \notin PathCells(layout[s], m)}}

RECURSIVE ExpandFrom(_, _, _)
ExpandFrom(layout, prev, S) ==
  IF S = <<>> THEN {<<>>}
  ELSE {g \o rest : g \in OpenGroupings(layout, prev, Head(S)),
                    rest \in ExpandFrom(layout, Head(S), Tail(S))}

Expand(layout, S) == ExpandFrom(layout, "A", S)

RECURSIVE ExpandLayers(_, _, _)
ExpandLayers(l, n, strings) ==
  IF l = 0 THEN strings
  ELSE ExpandLayers(l - 1, n,
         UNION {Expand(IF l = n THEN numerics ELSE arrows, S) : S \in strings})

MinOf(set) == CHOOSE m \in set : \A x \in set : m <= x

BruteForceMin(target, n) == MinOf({Len(S) : S \in ExpandLayers(n, n, {target})})

IsNumericTarget(seq) == \A i \in 1..Len(seq) : seq[i] \in NumericKeys

(***************************************************************************)
(* C1: for every code over the keys of the numeric pad and every depth N   *)
(* in 1..3, the value returned from the table equals the length of the     *)
(* shortest bottom-layer press string found by expanding the code through  *)
(* all N layers, trying every grouping the gap does not block.             *)
(***************************************************************************)
C1_TableEqualsExpansion ==
  (pc = "done" /\ layers \in 1..3 /\ IsNumericTarget(sequence))
    => result = BruteForceMin(sequence, layers)

C1_Witness ==
  /\ pc = "done"
  /\ layers = 3
  /\ sequence = Example029A
  /\ result = 68
  /\ result = BruteForceMin(sequence, layers)

(***************************************************************************)
(* C2: at chain depth 0 the value returned for a code over the keys of the *)
(* numeric pad is the length of the code ("179A" costs 4).                 *)
(***************************************************************************)
C2_DepthZeroIsLength ==
  (pc = "done" /\ layers = 0 /\ IsNumericTarget(sequence)) => result = Len(sequence)

(***************************************************************************)
(* C3: the value returned for the code t1..tk is                           *)
(* cost[N][A][t1] + cost[N][t1][t2] + ... + cost[N][t(k-1)][tk]: every     *)
(* consecutive pair of "A" + code has an entry at layer N and is charged   *)
(* exactly once, none is skipped.                                          *)
(***************************************************************************)
RECURSIVE SumOfEntries(_, _, _, _)
SumOfEntries(l, seq, costs, i) ==
  IF i > Len(seq) THEN 0
  ELSE costs[TransitionKey(l, seq, i)] + SumOfEntries(l, seq, costs, i + 1)

C3_EveryPairCharged ==
  (pc = "done" /\ IsNumericTarget(sequence)) =>
     /\ \A i \in 1..Len(sequence) :
           TransitionKey(layers, sequence, i) \in DOMAIN movementCosts
     /\ result = SumOfEntries(layers, sequence, movementCosts, 1)

(***************************************************************************)
(* C4: for a code over the keys of the numeric pad, the value returned at  *)
(* depth N is at most the value returned at depth N + 1.                   *)
(***************************************************************************)
C4_MonotoneInDepth ==
  (pc = "done" /\ IsNumericTarget(sequence)) =>
     /\ result <= countMinimalKeyPresses(sequence, layers + 1)
     /\ layers > 0 => countMinimalKeyPresses(sequence, layers - 1) <= result

C4_Witness ==
  /\ pc = "done"
  /\ layers = 2
  /\ sequence = Example029A
  /\ countMinimalKeyPresses(sequence, 1) = 12
  /\ result = 28
  /\ countMinimalKeyPresses(sequence, 3) = 68

(***************************************************************************)
(* C5: in every layer L >= 1 of the table, the entry from a key of the     *)
(* layer's keypad to itself is 1.                                          *)
(***************************************************************************)
RealKeys(layout) == DOMAIN layout \ {" "}

C5_SameKeyCostsOne ==
  \A k \in DOMAIN movementCosts :
     (k[1] >= 1 /\ k[2] = k[3] /\ k[2] # " ") => movementCosts[k] = 1

C5_Witness ==
  /\ pc = "done"
  /\ layers = 3
  /\ \A l \in 1..2 : \A s \in RealKeys(arrows) :
        <<l, s, s>> \in DOMAIN movementCosts /\ movementCosts[<<l, s, s>>] = 1
  /\ \A s \in RealKeys(numerics) :
        <<3, s, s>> \in DOMAIN movementCosts /\ movementCosts[<<3, s, s>>] = 1

(***************************************************************************)
(* C6: the table is not symmetric.  In every table built for a depth       *)
(* N >= 2, the entries of layer N between "A" and "1" of the numeric pad   *)
(* differ in the two directions, and so do the entries between "A" and "<" *)
(* of every directional layer 2 .. N-1; in both cases the gap blocks the   *)
(* horizontal-first grouping one way and the vertical-first grouping the   *)
(* other way.                                                              *)
(***************************************************************************)
GapAsymmetric(l, layout, s, e, costs) ==
  /\ <<l, s, e>> \in DOMAIN costs
  /\ <<l, e, s>> \in DOMAIN costs
  /\ costs[<<l, s, e>>] # costs[<<l, e, s>>]
  /\ horizontalFirstCost(l, layout, s, e, costs) = Infinity
  /\ verticalFirstCost(l, layout, s, e, costs) # Infinity
  /\ verticalFirstCost(l, layout, e, s, costs) = Infinity
  /\ horizontalFirstCost(l, layout, e, s, costs) # Infinity

C6_NotSymmetric ==
  (pc = "done" /\ layers >= 2) =>
     /\ GapAsymmetric(layers, numerics, "A", "1", movementCosts)
     /\ \A l \in 2..(layers - 1) : GapAsymmetric(l, arrows, "A", "<", movementCosts)

C6_Witness ==
  /\ pc = "done"
  /\ layers = 3
  /\ movementCosts[<<3, "A", "1">>] = 26
  /\ movementCosts[<<3, "1", "A">>] = 22
  /\ movementCosts[<<2, "A", "<">>] = 10
  /\ movementCosts[<<2, "<", "A">>] = 8

(***************************************************************************)
(* C7: a code with a character that is not a key of the numeric pad, the   *)
(* keypad of the outermost layer of a chain of depth N >= 1, is rejected   *)
(* with an error: the call does not return a cost for it.                  *)
(***************************************************************************)
HasUnknownSymbol(seq) == \E i \in 1..Len(seq) : seq[i] \notin DOMAIN numerics

C7_UnknownSymbolRejected ==
  (layers >= 1 /\ HasUnknownSymbol(sequence)) => pc # "done"

(***************************************************************************)
(* C8: no state survives from one call to the next.  A call that follows   *)
(* other calls, for any codes and depths, ends with the same table as the  *)
(* first call of the same depth, and returns the same value as the first   *)
(* call when the code is the same too.                                     *)
(***************************************************************************)
C8_CallsAreIndependent ==
  (pc = "done" /\ first.layers = layers) =>
     /\ movementCosts = first.table
     /\ first.sequence = sequence => result = first.result

C8_Witness ==
  /\ pc = "done"
  /\ callsLeft = 0
  /\ first.layers = layers
  /\ first.sequence = sequence
  /\ layers = 2
  /\ sequence = Example029A
  /\ result = 28
  /\ movementCosts = first.table

(***************************************************************************)
(* C9: for a depth N >= 1 and a code over the keys of the numeric pad, the *)
(* value returned is a finite non-negative integer, and every entry read   *)
(* by the final sum is stored and finite.                                  *)
(***************************************************************************)
C9_ResultIsFinite ==
  (pc = "done" /\ layers >= 1 /\ IsNumericTarget(sequence)) =>
     /\ result \in Nat
     /\ \A i \in 1..Len(sequence) :
           /\ TransitionKey(layers, sequence, i) \in DOMAIN movementCosts
           /\ movementCosts[TransitionKey(layers, sequence, i)] \in Nat \ {0}

C9_Witness ==
  /\ pc = "done"
  /\ layers = 3
  /\ sequence = Example179A
  /\ result = 68

(***************************************************************************)
(* C10: when a layer has been filled, for every ordered pair of keys of    *)
(* its keypad, a grouping whose path visits the gap at any of its cells    *)
(* (the corner included) has no finite cost, and the stored cost is finite *)
(* and is the cost of a grouping whose path visits the gap at none of its  *)
(* cells.                                                                  *)
(***************************************************************************)
HorizontalFirstPath(layout, s, e) ==
  PathCells(layout[s], horizontalMoves(layout, s, e) \o verticalMoves(layout, s, e))

VerticalFirstPath(layout, s, e) ==
  PathCells(layout[s], verticalMoves(layout, s, e) \o horizontalMoves(layout, s, e))

GapAvoided(l, layout, s, e, costs) ==
  /\ layout[" "] \in HorizontalFirstPath(layout, s, e)
        => horizontalFirstCost(l, layout, s, e, costs) = Infinity
  /\ layout[" "] \in VerticalFirstPath(layout, s, e)
        => verticalFirstCost(l, layout, s, e, costs) = Infinity
  /\ costs[<<l, s, e>>] # Infinity
  /\ \/ /\ layout[" "] \notin HorizontalFirstPath(layout, s, e)
        /\ costs[<<l, s, e>>] = horizontalFirstCost(l, layout, s, e, costs)
     \/ /\ layout[" "] \notin VerticalFirstPath(layout, s, e)
        /\ costs[<<l, s, e>>] = verticalFirstCost(l, layout, s, e, costs)

C10_ChosenPathAvoidsGap ==
  (pc = "layer" /\ layer >= 2) =>
     \A s \in RealKeys(Layout(keyboard)), e \in RealKeys(Layout(keyboard)) :
        GapAvoided(layer - 1, Layout(keyboard), s, e, movementCosts)

C10_Witness ==
  /\ pc = "layer"
  /\ layer = 4
  /\ layers = 3
  /\ keyboard = "numerics"
  /\ numerics[" "] \in HorizontalFirstPath(numerics, "A", "1")
  /\ horizontalFirstCost(3, numerics, "A", "1", movementCosts) = Infinity
  /\ arrows[" "] \in VerticalFirstPath(arrows, "<", "A")
  /\ movementCosts[<<2, "<", "A">>] = horizontalFirstCost(2, arrows, "<", "A", movementCosts)
  /\ movementCosts[<<3, "A", "1">>] = verticalFirstCost(3, numerics, "A", "1", movementCosts)


(***************************************************************************)
(* C11: the table of a deeper chain reused for a depth-N query.  As        *)
(* claimed: after a call of depth M > N, summing the layer-N entries of    *)
(* its table over the consecutive pairs of "A" + code gives the value      *)
(* returned by the call of depth N.                                        *)
(***************************************************************************)
C11_DeeperTableReused ==
  (pc = "done" /\ first.layers > layers) =>
     countTotalPresses(layers, sequence, first.table) = result

(***************************************************************************)
(* C11, amended: the layers 0 .. N-1 of the table of a deeper chain are    *)
(* the layers 0 .. N-1 of the depth-N table; layer N of the deeper table   *)
(* is a directional layer, and the value returned at depth N is the sum    *)
(* over layer N recomputed over the numeric pad from the reused layers     *)
(* (for N = 0, the sum over the shared layer 0).                           *)
(***************************************************************************)
Below(costs, n) == [k \in {x \in DOMAIN costs : x[1] < n} |-> costs[k]]

RebuiltTop(costs, n) ==
  IF n = 0 THEN costs ELSE fillLayer(n, "numerics", Below(costs, n))

C11_LowerLayersReused ==
  (pc = "done" /\ first.layers > layers) =>
     /\ Below(first.table, layers) = Below(movementCosts, layers)
     /\ result = countTotalPresses(layers, sequence, RebuiltTop(first.table, layers))

C11_Witness ==
  /\ pc = "done"
  /\ first.layers = 3
  /\ layers = 2
  /\ sequence = Example029A
  /\ result = 28
  /\ countTotalPresses(layers, sequence, first.table) = 0
  /\ countTotalPresses(layers, sequence, RebuiltTop(first.table, layers)) = 28

(***************************************************************************)
(* C12: when a layer L has been filled, for every ordered pair (s, e) of   *)
(* keys of its keypad the stored cost[L][s][e] is the minimum, over the    *)
(* groupings that the gap does not block, of the sum over the consecutive  *)
(* pairs (a, b) of "A" + grouping of cost[L-1][a][b], with cost[0][a][b]   *)
(* = 1; the step away from "A" is part of the sum.                         *)
(***************************************************************************)
CostBelow(l, a, b, costs) == IF l = 1 THEN 1 ELSE costs[<<l - 1, a, b>>]

RECURSIVE GroupingSum(_, _, _, _)
GroupingSum(l, prev, g, costs) ==
  IF g = <<>> THEN 0
  ELSE CostBelow(l, prev, Head(g), costs) + GroupingSum(l, Head(g), Tail(g), costs)

RecurrenceCost(l, layout, s, e, costs) ==
  MinOf({GroupingSum(l, "A", g, costs) : g \in OpenGroupings(layout, s, e)})

C12_EntryIsRecurrence ==
  (pc = "layer" /\ layer >= 2) =>
     \A s \in RealKeys(Layout(keyboard)), e \in RealKeys(Layout(keyboard)) :
        movementCosts[<<layer - 1, s, e>>]
           = RecurrenceCost(layer - 1, Layout(keyboard), s, e, movementCosts)

C12_Witness ==
  /\ pc = "layer"
  /\ layer = 4
  /\ layers = 3
  /\ OpenGroupings(numerics, "8", "4") = {<<"<", "v", "A">>, <<"v", "<", "A">>}
  /\ GroupingSum(3, "A", <<"<", "v", "A">>, movementCosts) = 21
  /\ GroupingSum(3, "A", <<"v", "<", "A">>, movementCosts) = 25
  /\ movementCosts[<<3, "8", "4">>] = 21

(***************************************************************************)
(* C13: for every depth N in 1..3, when a layer has been filled, for every *)
(* ordered pair of keys of its keypad, no ordering of the same |dx|        *)
(* horizontal and |dy| vertical presses (interleaved or not) whose path    *)
(* avoids the gap costs less than the stored entry.  The layers below      *)
(* satisfy the same property, so their entries are the costs of the        *)
(* presses of the ordering whether or not interleaving is allowed there.   *)
(***************************************************************************)
RECURSIVE Interleave(_, _, _, _)
Interleave(nh, nv, ch, cv) ==
  IF nh = 0 THEN {Run(nv, cv)}
  ELSE IF nv = 0 THEN {Run(nh, ch)}
  ELSE {<<ch>> \o r : r \in Interleave(nh - 1, nv, ch, cv)}
         \cup {<<cv>> \o r : r \in Interleave(nh, nv - 1, ch, cv)}

OpenOrderings(layout, s, e) ==
  {m \o <<"A">> :
     m \in {x \in Interleave(Abs(layout[e][1] - layout[s][1]),
                             Abs(layout[e][2] - layout[s][2]),
                             IF layout[e][1] > layout[s][1] THEN ">" ELSE "<",
                             IF layout[e][2] > layout[s][2] THEN "v" ELSE "^") :
              layout[" "] \notin PathCells(layout[s], x)}}

C13_InterleavingNeverCheaper ==
  (pc = "layer" /\ layer >= 2 /\ layers \in 1..3) =>
     \A s \in RealKeys(Layout(keyboard)), e \in RealKeys(Layout(keyboard)) :
        \A g \in OpenOrderings(Layout(keyboard), s, e) :
           movementCosts[<<layer - 1, s, e>>]
              <= GroupingSum(layer - 1, "A", g, movementCosts)

C13_Witness ==
  /\ pc = "layer"
  /\ layer = 4
  /\ layers = 3
  /\ Cardinality(OpenOrderings(numerics, "7", "3")) = 6
  /\ OpenGroupings(numerics, "7", "3") \subseteq OpenOrderings(numerics, "7", "3")
  /\ movementCosts[<<3, "7", "3">>] = 19
  /\ GroupingSum(3, "A", <<">", "v", ">", "v", "A">>, movementCosts) > 19
  /\ Cardinality(OpenOrderings(numerics, "A", "7")) = 9

(***************************************************************************)
(* C14: during the build, the computation of an entry of layer L reads     *)
(* only entries of layer L-1: every key it looks up is a key of layer L-1, *)
(* and the value it computes is the value it computes from the entries of  *)
(* layer L-1 alone, whatever is stored in layer L and in the other layers. *)
(***************************************************************************)
OnlyLayer(costs, l) == [k \in {x \in DOMAIN costs : x[1] = l} |-> costs[k]]

C14_ReadsOnlyLayerBelow ==
  pc = "pair" =>
     LET layout == Layout(keyboard)
         startKey == Keys(keyboard)[si]
         endKey == Keys(keyboard)[ei]
     IN /\ \A k \in pairLookups(layer, layout, startKey, endKey) : k[1] = layer - 1
        /\ pairCost(layer, layout, startKey, endKey, movementCosts)
             = pairCost(layer, layout, startKey, endKey,
                        OnlyLayer(movementCosts, layer - 1))

C14_Witness ==
  /\ pc = "pair"
  /\ layers = 3
  /\ layer = 2
  /\ Keys(keyboard)[si] = "<"
  /\ Keys(keyboard)[ei] = "A"
  /\ <<2, "A", ">">> \in DOMAIN movementCosts
  /\ <<2, "^", "A">> \in DOMAIN movementCosts
  /\ pairLookups(2, arrows, "<", "A")
        = {<<1, "A", ">">>, <<1, ">", ">">>, <<1, ">", "^">>, <<1, "^", "A">>}
  /\ pairCost(2, arrows, "<", "A", movementCosts) = 8

(***************************************************************************)
(* C15: layers are filled in strictly increasing order and each entry      *)
(* (layer, start, end) is written exactly once.  In every step of a build: *)
(* the layer counter never decreases and no stored entry belongs to a      *)
(* layer above it; every stored entry keeps its value; the only entry      *)
(* added is the one of the current pair of the current layer, and that     *)
(* entry was not stored before the step.                                   *)
(***************************************************************************)
CurrentKey == <<layer, Keys(keyboard)[si], Keys(keyboard)[ei]>>

C15_Step ==
  pc # "done" =>
    /\ layer' >= layer
    /\ \A k \in DOMAIN movementCosts : k[1] <= layer
    /\ \A k \in DOMAIN movementCosts :
         k \in DOMAIN movementCosts' /\ movementCosts'[k] = movementCosts[k]
    /\ DOMAIN movementCosts' \ DOMAIN movementCosts =
         IF pc = "pair" THEN {CurrentKey} ELSE {}
    /\ (pc = "pair" /\ pc' = "layer") => layer' = layer + 1

C15_WrittenOnceInOrder == [][C15_Step]_vars

C15_Witness ==
  /\ pc = "pair" /\ layers = 3 /\ layer = 3 /\ si = 2 /\ ei = 1
  /\ \A s, e \in DOMAIN arrows :
       {<<0, s, e>>, <<1, s, e>>, <<2, s, e>>} \subseteq DOMAIN movementCosts
  /\ \A e \in DOMAIN numerics : <<3, "7", e>> \in DOMAIN movementCosts
  /\ CurrentKey = <<3, "8", "7">>
  /\ CurrentKey \notin DOMAIN movementCosts

(***************************************************************************)
(* C16: when the build moves on to layer L+1, layer L holds an entry for   *)
(* every ordered pair of keys of its layout; every lookup made while an    *)
(* entry of layer L is computed, and every lookup of the final sum for a   *)
(* numeric target at depth N >= 1, finds a stored entry that is added to   *)
(* the sum.                                                                *)
(***************************************************************************)
LayerComplete(l, layout, costs) ==
  \A s, e \in DOMAIN layout : <<l, s, e>> \in DOMAIN costs

C16_NoLookupMisses ==
  /\ (pc = "layer" /\ layer >= 2) =>
       LayerComplete(layer - 1, Layout(keyboard), movementCosts)
  /\ pc = "pair" =>
       \A k \in pairLookups(layer, Layout(keyboard),
                            Keys(keyboard)[si], Keys(keyboard)[ei]) :
         Truthy(movementCosts, k)
  /\ (pc = "return" /\ layers >= 1 /\ IsNumericTarget(sequence)) =>
       \A k \in lookups(layers, sequence) : Truthy(movementCosts, k)

C16_Witness ==
  /\ pc = "return" /\ layers = 3 /\ sequence = Example029A
  /\ LayerComplete(1, arrows, movementCosts)
  /\ LayerComplete(2, arrows, movementCosts)
  /\ LayerComplete(3, numerics, movementCosts)
  /\ lookups(layers, sequence) =
       {<<3, "A", "0">>, <<3, "0", "2">>, <<3, "2", "9">>, <<3, "9", "A">>}
  /\ lookups(layers, sequence) \subseteq DOMAIN movementCosts
  /\ pairLookups(3, numerics, "A", "7") \subseteq DOMAIN movementCosts

(***************************************************************************)
(* C17: in a chain of depth N >= 1 the entries of the layers 1 .. N-1 are  *)
(* computed over the directional layout (keys ^ A < v >, gap at column 0   *)
(* row 0) and the entries of layer N, and of no other layer, over the      *)
(* numeric layout (keys 789 / 456 / 123 / 0A, gap at column 0 row 3); for  *)
(* N = 1 the single layer is numeric.                                      *)
(***************************************************************************)
ActiveLayout(l, n) == IF l = n THEN numerics ELSE arrows

PairsOfLayer(costs, l) == {<<k[2], k[3]>> : k \in {x \in DOMAIN costs : x[1] = l}}

LayersOver(costs, n) ==
  \A l \in 1..n :
    PairsOfLayer(costs, l) = (DOMAIN ActiveLayout(l, n)) \X (DOMAIN ActiveLayout(l, n))

DirectionalPad ==
  [k \in {" ", "^", "A", "<", "v", ">"} |->
     CASE k = " " -> <<0, 0>> [] k = "^" -> <<1, 0>> [] k = "A" -> <<2, 0>>
       [] k = "<" -> <<0, 1>> [] k = "v" -> <<1, 1>> [] k = ">" -> <<2, 1>>]

NumericPad ==
  [k \in NumericKeys \cup {" "} |->
     CASE k = "7" -> <<0, 0>> [] k = "8" -> <<1, 0>> [] k = "9" -> <<2, 0>>
       [] k = "4" -> <<0, 1>> [] k = "5" -> <<1, 1>> [] k = "6" -> <<2, 1>>
       [] k = "1" -> <<0, 2>> [] k = "2" -> <<1, 2>> [] k = "3" -> <<2, 2>>
       [] k = " " -> <<0, 3>> [] k = "0" -> <<1, 3>> [] k = "A" -> <<2, 3>>]

C17_LayoutOfEachLayer ==
  /\ arrows = DirectionalPad
  /\ numerics = NumericPad
  /\ pc = "pair" =>
       /\ Layout(keyboard) = ActiveLayout(layer, layers)
       /\ {CurrentKey[2], CurrentKey[3]} \subseteq DOMAIN ActiveLayout(layer, layers)
  /\ (pc \in {"return", "done"} /\ layers >= 1) => LayersOver(movementCosts, layers)

C17_Witness ==
  /\ pc = "done" /\ layers = 3 /\ first.layers = 1
  /\ PairsOfLayer(movementCosts, 1) = (DOMAIN DirectionalPad) \X (DOMAIN DirectionalPad)
  /\ PairsOfLayer(movementCosts, 2) = (DOMAIN DirectionalPad) \X (DOMAIN DirectionalPad)
  /\ PairsOfLayer(movementCosts, 3) = (DOMAIN NumericPad) \X (DOMAIN NumericPad)
  /\ PairsOfLayer(first.table, 1) = (DOMAIN NumericPad) \X (DOMAIN NumericPad)
  /\ PairsOfLayer(first.table, 2) = {}

(***************************************************************************)
(* C18: on both layouts, for every ordered pair of keys, the               *)
(* horizontal-first corner (end column, start row) and the vertical-first  *)
(* corner (start column, end row) are never both the gap cell: at least    *)
(* one of the two groupings is not blocked.  The keys are the keys of the  *)
(* pads; the gap cell, which the layouts also hold as the Map key " ", is  *)
(* not one of them.                                                        *)
(***************************************************************************)
HorizontalFirstBlocked(layout, startKey, endKey) ==
  isBlockedPath(layout[endKey][1], layout[startKey][2], layout[" "])

VerticalFirstBlocked(layout, startKey, endKey) ==
  isBlockedPath(layout[startKey][1], layout[endKey][2], layout[" "])

BothBlocked(layout, startKey, endKey) ==
  HorizontalFirstBlocked(layout, startKey, endKey)
    /\ VerticalFirstBlocked(layout, startKey, endKey)

C18_OneGroupingOpen ==
  /\ \A kb \in {"arrows", "numerics"} :
       \A s, e \in RealKeys(Layout(kb)) : ~BothBlocked(Layout(kb), s, e)
  /\ (pc = "pair" /\ {CurrentKey[2], CurrentKey[3]} \subseteq RealKeys(Layout(keyboard))) =>
       /\ ~BothBlocked(Layout(keyboard), CurrentKey[2], CurrentKey[3])
       /\ pairCost(layer, Layout(keyboard), CurrentKey[2], CurrentKey[3], movementCosts)
            # Infinity

C18_Witness ==
  /\ pc = "pair" /\ layers = 3 /\ CurrentKey = <<3, "0", "7">>
  /\ HorizontalFirstBlocked(numerics, "0", "7")
  /\ ~VerticalFirstBlocked(numerics, "0", "7")
  /\ VerticalFirstBlocked(numerics, "7", "0")
  /\ ~HorizontalFirstBlocked(numerics, "7", "0")
  /\ horizontalFirstCost(3, numerics, "0", "7", movementCosts) = Infinity
  /\ verticalFirstCost(3, numerics, "0", "7", movementCosts) # Infinity
  /\ BothBlocked(numerics, " ", " ")

(***************************************************************************)
(* C19: when both groupings of a pair are blocked by the gap cell, no cost *)
(* is stored for the pair and the build ends with an error: the table      *)
(* never holds an infinite cost, and the build does not go past a pair     *)
(* whose two groupings are blocked.                                        *)
(***************************************************************************)
C19_NoInfiniteEntry ==
  /\ \A k \in DOMAIN movementCosts : movementCosts[k] # Infinity
  /\ \A k \in DOMAIN movementCosts :
       (k[1] >= 1 /\ k[1] <= layers)
         => ~BothBlocked(ActiveLayout(k[1], layers), k[2], k[3])

(***************************************************************************)
(* C20: every layer-0 transition costs exactly 1, so the layer-1 cost of   *)
(* moving from a key s to a key e of the layer-1 layout and pressing e is  *)
(* |dx| + |dy| + 1, for every ordered pair of keys, both when layer 1 is   *)
(* the numeric layer (N = 1) and when it is a directional layer (N > 1).   *)
(***************************************************************************)
Manhattan(layout, s, e) ==
  Abs(layout[e][1] - layout[s][1]) + Abs(layout[e][2] - layout[s][2])

LayerOneIsManhattan(costs, n) ==
  \A k \in DOMAIN costs :
    (k[1] = 1 /\ {k[2], k[3]} \subseteq RealKeys(ActiveLayout(1, n)))
      => costs[k] = Manhattan(ActiveLayout(1, n), k[2], k[3]) + 1

C20_LayerOneIsDistancePlusOne ==
  /\ \A s, e \in DOMAIN arrows :
       <<0, s, e>> \in DOMAIN movementCosts /\ movementCosts[<<0, s, e>>] = 1
  /\ \A k \in DOMAIN movementCosts : k[1] = 0 => movementCosts[k] = 1
  /\ layers >= 1 => LayerOneIsManhattan(movementCosts, layers)
  /\ (pc = "layer" /\ layer >= 2) =>
       \A s, e \in RealKeys(ActiveLayout(1, layers)) :
         movementCosts[<<1, s, e>>] = Manhattan(ActiveLayout(1, layers), s, e) + 1

C20_Witness ==
  /\ pc = "done" /\ layers = 3 /\ first.layers = 1
  /\ Manhattan(numerics, "A", "7") = 5
  /\ first.table[<<1, "A", "7">>] = 6
  /\ first.table[<<1, "5", "5">>] = 1
  /\ Manhattan(arrows, "<", "A") = 3
  /\ movementCosts[<<1, "<", "A">>] = 4
  /\ movementCosts[<<1, "A", "A">>] = 1
  /\ movementCosts[<<0, "A", "<">>] = 1

(***************************************************************************)
(* C21: for every depth N >= 0 and every code, countMinimalKeyPresses      *)
(* terminates.  Remaining is the number of steps left: one per loop head,  *)
(* one per ordered pair of keys of the layer's layout, and the final sum.  *)
(* Every step lowers it by exactly one, and the call returns.              *)
(***************************************************************************)
PairsAt(l, n) ==
  Cardinality(DOMAIN ActiveLayout(l, n)) * Cardinality(DOMAIN ActiveLayout(l, n))

RECURSIVE StepsFrom(_, _)
StepsFrom(l, n) ==
  IF l > n THEN 2 ELSE 1 + PairsAt(l, n) + StepsFrom(l + 1, n)

Remaining ==
  CASE pc = "done" -> 0
    [] pc = "return" -> 1
    [] pc = "layer" -> StepsFrom(layer, layers)
    [] pc = "pair" ->
         PairsAt(layer, layers)
           - ((si - 1) * Cardinality(DOMAIN ActiveLayout(layer, layers)) + (ei - 1))
           + StepsFrom(layer + 1, layers)

C21_Terminates ==
  /\ [][Remaining' = Remaining - 1 /\ Remaining' >= 0]_vars
  /\ <>(pc = "done")

C21_Witness ==
  /\ pc = "done" /\ layers = 3 /\ sequence = Example029A /\ result = 68
  /\ StepsFrom(1, 3) = 221
  /\ Remaining = 0
  /\ LayerComplete(3, numerics, movementCosts)

(***************************************************************************)
(* The chain of N arms, executed press by press.  Arm k (1 <= k <= N) is   *)
(* over the pad of layer k: the numeric pad for k = N, a directional pad   *)
(* below.  A direction pressed on the pad that drives arm k moves the arm  *)
(* by one cell; "A" actuates the key under the arm, which is a press on    *)
(* the pad that drives arm k + 1, or a typed key when k = N.  The chain    *)
(* fails when an arm is moved over the gap cell or off its pad, and is     *)
(* calm as long as every actuation of an arm found the arms below it on    *)
(* "A".                                                                    *)
(***************************************************************************)
PadOf(k, n) == IF k = n THEN NumericPad ELSE DirectionalPad

HomeCells(n) == [k \in 1..n |-> PadOf(k, n)["A"]]

ChainStart(n) ==
  [pad |-> [k \in 1..n |-> PadOf(k, n)], arm |-> HomeCells(n),
   typed |-> <<>>, ok |-> TRUE, calm |-> TRUE]

KeyUnder(pad, cell) == CHOOSE key \in DOMAIN pad : pad[key] = cell

Moved(cell, c) == <<cell[1] + Delta(c)[1], cell[2] + Delta(c)[2]>>

OnPad(pad, cell) == \E key \in DOMAIN pad \ {" "} : pad[key] = cell

LowerArmsHome(k, chain) == \A j \in 1..(k - 1) : chain.arm[j] = chain.pad[j]["A"]

RECURSIVE PressOn(_, _, _)
PressOn(k, c, chain) ==
  IF ~chain.ok THEN chain
  ELSE IF k > Len(chain.arm) THEN [chain EXCEPT !.typed = Append(@, c)]
  ELSE IF c = "A"
       THEN PressOn(k + 1, KeyUnder(chain.pad[k], chain.arm[k]),
                    [chain EXCEPT !.calm = @ /\ LowerArmsHome(k, chain)])
  ELSE IF OnPad(chain.pad[k], Moved(chain.arm[k], c))
       THEN [chain EXCEPT !.arm[k] = Moved(chain.arm[k], c)]
  ELSE [chain EXCEPT !.ok = FALSE]

RECURSIVE Execute(_, _, _)
Execute(presses, i, chain) ==
  IF i > Len(presses) THEN chain
  ELSE LET after == PressOn(1, presses[i], chain)
       IN IF after.ok THEN Execute(presses, i + 1, after) ELSE after

(***************************************************************************)
(* The press string behind a stored cost: for each transition of a string  *)
(* typed at layer l, the grouping whose cost line 103 keeps, itself typed  *)
(* at layer l - 1 in the same way down to the bottom pad.                  *)
(***************************************************************************)
KeptGrouping(l, layout, startKey, endKey, costs) ==
  IF verticalFirstCost(l, layout, startKey, endKey, costs) = Infinity
       \/ (horizontalFirstCost(l, layout, startKey, endKey, costs) # Infinity
            /\ horizontalFirstCost(l, layout, startKey, endKey, costs)
                 <= verticalFirstCost(l, layout, startKey, endKey, costs))
  THEN horizontalMoves(layout, startKey, endKey)
         \o verticalMoves(layout, startKey, endKey) \o <<"A">>
  ELSE verticalMoves(layout, startKey, endKey)
         \o horizontalMoves(layout, startKey, endKey) \o <<"A">>

RECURSIVE BottomPresses(_, _, _, _, _)
BottomPresses(l, n, seq, i, costs) ==
  IF i > Len(seq) THEN <<>>
  ELSE LET g == KeptGrouping(l, ActiveLayout(l, n),
                             (<<"A">> \o seq)[i], seq[i], costs)
       IN (IF l = 1 THEN g ELSE BottomPresses(l - 1, n, g, 1, costs))
            \o BottomPresses(l, n, seq, i + 1, costs)

(***************************************************************************)
(* C22: for every code over the keys of the numeric pad and every depth N  *)
(* in 1..3 there is a string of bottom-layer presses whose length is the   *)
(* returned count and which, executed press by press on the chain of N     *)
(* arms, types exactly the code, no arm ever being over a gap cell; the    *)
(* arms below the outermost end on "A", the outermost on the last key.     *)
(***************************************************************************)
C22_CountIsExecutable ==
  (pc = "done" /\ layers \in 1..3 /\ IsNumericTarget(sequence)) =>
    LET presses == BottomPresses(layers, layers, sequence, 1, movementCosts)
        chain == Execute(presses, 1, ChainStart(layers))
    IN /\ Len(presses) = result
       /\ chain.ok
       /\ chain.typed = sequence
       /\ \A k \in 1..(layers - 1) : chain.arm[k] = DirectionalPad["A"]
       /\ chain.arm[layers] = NumericPad[(<<"A">> \o sequence)[Len(sequence) + 1]]

C22_Witness ==
  /\ pc = "done" /\ layers = 3 /\ sequence = Example029A /\ result = 68
  /\ Len(BottomPresses(3, 3, sequence, 1, movementCosts)) = 68
  /\ Execute(BottomPresses(3, 3, sequence, 1, movementCosts), 1, ChainStart(3)).typed
       = Example029A
  /\ ~Execute(<<"<", "<", "A">>, 1, ChainStart(1)).ok
  /\ Execute(<<"<", "A">>, 1, ChainStart(1)).typed = <<"0">>

(***************************************************************************)
(* C23: every press string generated for a transition ends with "A", so    *)
(* whenever an arm actuates a key the arms below it are on "A"; the cost   *)
(* of a transition at layer L depends only on its two keys and on L, and   *)
(* the cost of a code is the sum of the costs of its transitions.  The     *)
(* presses of the transition (s, e) of layer L, executed on the arms       *)
(* 1 .. L with arm L on s and the arms below on "A", number exactly the    *)
(* stored cost, press e once, leave arm L on e and the arms below on "A".  *)
(***************************************************************************)
TransitionPresses(l, n, s, e, costs) ==
  IF l = 1 THEN KeptGrouping(l, ActiveLayout(l, n), s, e, costs)
  ELSE BottomPresses(l - 1, n, KeptGrouping(l, ActiveLayout(l, n), s, e, costs), 1, costs)

ArmsAt(l, n, key) ==
  [pad |-> [k \in 1..l |-> PadOf(k, n)],
   arm |-> [k \in 1..l |-> IF k = l THEN PadOf(l, n)[key] ELSE DirectionalPad["A"]],
   typed |-> <<>>, ok |-> TRUE, calm |-> TRUE]

TransitionIsLocal(l, n, s, e, costs) ==
  LET grouping == KeptGrouping(l, ActiveLayout(l, n), s, e, costs)
      presses == TransitionPresses(l, n, s, e, costs)
      after == Execute(presses, 1, ArmsAt(l, n, s))
  IN /\ grouping[Len(grouping)] = "A"
     /\ presses[Len(presses)] = "A"
     /\ Len(presses) = costs[<<l, s, e>>]
     /\ after.ok /\ after.calm
     /\ after.typed = <<e>>
     /\ after.arm = ArmsAt(l, n, e).arm

C23_TransitionsAreLocal ==
  /\ (pc = "layer" /\ layer >= 2 /\ layers \in 1..3) =>
       \A s, e \in RealKeys(Layout(keyboard)) :
         TransitionIsLocal(layer - 1, layers, s, e, movementCosts)
  /\ (pc = "done" /\ layers \in 1..3) =>
       /\ result = GroupingSum(layers + 1, "A", sequence, movementCosts)
       /\ Execute(BottomPresses(layers, layers, sequence, 1, movementCosts), 1,
                  ChainStart(layers)).calm

C23_Witness ==
  /\ pc = "done" /\ layers = 3 /\ sequence = Example029A
  /\ Len(TransitionPresses(2, 3, "<", "A", movementCosts)) = 8
  /\ movementCosts[<<2, "<", "A">>] = 8
  /\ Execute(TransitionPresses(2, 3, "<", "A", movementCosts), 1, ArmsAt(2, 3, "<")).typed
       = <<"A">>
  /\ result = 68
  /\ movementCosts[<<3, "A", "0">>] + movementCosts[<<3, "0", "2">>]
       + movementCosts[<<3, "2", "9">>] + movementCosts[<<3, "9", "A">>] = 68

(***************************************************************************)
(* The keypad program when another program runs.                           *)
(***************************************************************************)
KeypadOff ==
  /\ sequence = <<>> /\ layers = 0 /\ pc = "off" /\ layer = 1
  /\ keyboard = "arrows" /\ si = 1 /\ ei = 1 /\ movementCosts = <<>>
  /\ result = 0 /\ callsLeft = 0 /\ first = NoCall

(***************************************************************************)
(* Day 9 (src/days/9/mod.ts).  A disk map is a sequence of blocks: "." for *)
(* a free block, the decimal string of the file ID for a file block.  The  *)
(* code keys fileIdQuantity by the number +char; the table below is keyed  *)
(* by the string, which names the same file.  Indexes i and j are the      *)
(* code's, counted from 0: arr[i] of the code is arr[i + 1] here.          *)
(***************************************************************************)
MaxDense == 4
MaxDigit == 2

Fill(n, v) == [k \in 1..n |-> v]

(* Number.prototype.toString for a non-negative integer.                    *)
DigitChars == <<"0", "1", "2", "3", "4", "5", "6", "7", "8", "9">>

RECURSIVE toString(_)
toString(n) ==
  IF n < 10 THEN DigitChars[n + 1]
  ELSE toString(n \div 10) \o DigitChars[(n % 10) + 1]

RECURSIVE parseFrom(_, _, _, _)
parseFrom(list, i, currentID, parsed) ==
  IF i >= Len(list) THEN parsed
  ELSE parseFrom(list, i + 1,
                 IF i % 2 = 0 THEN currentID + 1 ELSE currentID,
                 parsed \o Fill(list[i + 1],
                                IF i % 2 = 0 THEN toString(currentID) ELSE "."))

parseDiskMap(data) == parseFrom(data, 0, 0, <<>>)

DenseMaps == UNION {[1..n -> 0..MaxDigit] : n \in 0..MaxDense}

(* Array.prototype.slice(start, end) and slice(start) for 0 <= start.       *)
Slice(arr, start, end) ==
  [k \in 1..(IF end > Len(arr) THEN Len(arr) - start
             ELSE IF end > start THEN end - start ELSE 0) |-> arr[start + k]]

SliceFrom(arr, start) == Slice(arr, start, Len(arr))

(* Array.prototype.indexOf: the first index of v, or -1.                    *)
IndexOf_Last(arr, v) ==
  IF \E k \in 1..Len(arr) : arr[k] = v
  THEN (CHOOSE k \in 1..Len(arr) : arr[k] = v /\ \A m \in (k + 1)..Len(arr) : arr[m] # v) - 1
  ELSE 0 - 1

IndexOf(arr, v) ==
  IF \E k \in 1..Len(arr) : arr[k] = v
  THEN (CHOOSE k \in 1..Len(arr) : arr[k] = v /\ \A m \in 1..(k - 1) : arr[m] # v) - 1
  ELSE 0 - 1

(* Lines 89-94: the number of blocks of each file ID.                       *)
fileIdQuantity(arr) ==
  [id \in {arr[k] : k \in 1..Len(arr)} \ {"."} |->
     Cardinality({k \in 1..Len(arr) : arr[k] = id})]

(* Lines 105-130: the scan for a span of free blocks.  The span is tested  *)
(* when the scan meets a file block at an index j < i; the value is the    *)
(* array after the move, or the array itself when the scan ends without a  *)
(* move.                                                                   *)
MoveInto(arr, i, j, dotCount, totalToMove) ==
  Slice(arr, 0, j - dotCount)
    \o Fill(totalToMove, arr[i + 1])
    \o Slice(arr, j - dotCount + totalToMove, i - totalToMove + 1)
    \o Fill(totalToMove, ".")
    \o SliceFrom(arr, i + 1)

RECURSIVE scanSpan(_, _, _, _, _)
scanSpan(arr, i, totalToMove, j, dotCount) ==
  IF j >= Len(arr) \/ j >= i THEN arr
  ELSE IF arr[j + 1] = "." THEN scanSpan(arr, i, totalToMove, j + 1, dotCount + 1)
  ELSE IF dotCount < totalToMove THEN scanSpan(arr, i, totalToMove, j + 1, 0)
  ELSE MoveInto(arr, i, j, dotCount, totalToMove)

EnterBlocks(diskMap) ==
  [fn |-> "moveBlocksToLeft", pc |-> "loop", diskMap |-> diskMap,
   arrangedDiskMap |-> diskMap, i |-> Len(diskMap) - 1]

EnterFiles(diskMap) ==
  [fn |-> "moveFilesToLeft", pc |-> "loop", diskMap |-> diskMap,
   arrangedDiskMap |-> diskMap, i |-> Len(diskMap) - 1]

InitDisk ==
  /\ KeypadOff
  /\ disk \in {EnterBlocks(parseDiskMap(data)) : data \in DenseMaps}
              \cup {EnterFiles(parseDiskMap(data)) : data \in DenseMaps}
  /\ memory = Off /\ wires = Off /\ computer = Off /\ guard = Off /\ warehouse = Off

notDisk == <<keypadVars, memory, wires, computer, guard, warehouse>>

(* Lines 36-45: one iteration of the for loop of moveBlocksToLeft.          *)
BlockStep ==
  /\ disk.pc = "loop" /\ disk.fn = "moveBlocksToLeft" /\ disk.i >= 0
  /\ disk' =
       IF disk.arrangedDiskMap[disk.i + 1] = "."
       THEN [disk EXCEPT !.i = @ - 1]
       ELSE LET firstEmptyIndex == IndexOf(disk.arrangedDiskMap, ".")
            IN IF firstEmptyIndex >= 0 /\ firstEmptyIndex < disk.i
               THEN [disk EXCEPT
                       !.arrangedDiskMap =
                          [@ EXCEPT ![firstEmptyIndex + 1] = disk.diskMap[disk.i + 1],
                                    ![disk.i + 1] = "."],
                       !.i = @ - 1]
               ELSE [disk EXCEPT !.i = @ - 1]
  /\ UNCHANGED notDisk

(* Lines 97-133: one iteration of the while loop of moveFilesToLeft.        *)
FileStep ==
  /\ disk.pc = "loop" /\ disk.fn = "moveFilesToLeft" /\ disk.i >= 0
  /\ disk' =
       IF disk.arrangedDiskMap[disk.i + 1] = "."
       THEN [disk EXCEPT !.i = @ - 1]
       ELSE LET totalToMove ==
                  fileIdQuantity(disk.diskMap)[disk.arrangedDiskMap[disk.i + 1]]
            IN [disk EXCEPT
                  !.arrangedDiskMap = scanSpan(@, disk.i, totalToMove, 0, 0),
                  !.i = @ - totalToMove]
  /\ UNCHANGED notDisk

(* Lines 46 and 135: the loop is over, arrangedDiskMap is returned.         *)
DiskReturn ==
  /\ disk.pc = "loop" /\ disk.i < 0
  /\ disk' = [disk EXCEPT !.pc = "done"]
  /\ UNCHANGED notDisk

NextDisk == BlockStep \/ FileStep \/ DiskReturn

SpecDisk == InitDisk /\ [][NextDisk]_vars

(***************************************************************************)
(* C24: moveFilesToLeft takes the files in order of decreasing file ID and *)
(* moves each whole file into the leftmost span of consecutive free blocks *)
(* to the left of the file that is at least as long as the file; a file    *)
(* stays in place only when there is no such span.  This holds for files   *)
(* of every length, one-block files whose span ends immediately before the *)
(* file included.  WholeFilesToLeft is that compaction, stated directly.   *)
(***************************************************************************)
BlocksOf(arr, id) == {k \in 1..Len(arr) : arr[k] = id}

FirstOf(set) == CHOOSE m \in set : \A x \in set : m <= x

FittingSpans(arr, id) ==
  {start \in 1..(FirstOf(BlocksOf(arr, id)) - Cardinality(BlocksOf(arr, id))) :
     \A k \in start..(start + Cardinality(BlocksOf(arr, id)) - 1) : arr[k] = "."}

MoveWhole(arr, id) ==
  IF BlocksOf(arr, id) = {} \/ FittingSpans(arr, id) = {} THEN arr
  ELSE LET start == FirstOf(FittingSpans(arr, id))
           length == Cardinality(BlocksOf(arr, id))
       IN [k \in 1..Len(arr) |->
             IF k \in start..(start + length - 1) THEN id
             ELSE IF arr[k] = id THEN "." ELSE arr[k]]

RECURSIVE WholeFilesFrom(_, _)
WholeFilesFrom(arr, n) ==
  IF n < 0 THEN arr ELSE WholeFilesFrom(MoveWhole(arr, toString(n)), n - 1)

WholeFilesToLeft(arr) == WholeFilesFrom(arr, Len(arr))

C24_WholeFilesToLeftmostSpan ==
  (disk.pc = "done" /\ disk.fn = "moveFilesToLeft")
    => disk.arrangedDiskMap = WholeFilesToLeft(disk.diskMap)

(***************************************************************************)
(* C25: moveBlocksToLeft returns a disk map in which no free block lies to *)
(* the left of a file block and which holds the same blocks as its input:  *)
(* the same number of blocks of each file ID and of free blocks, the same  *)
(* length.  The input array is not modified: the blocks are counted        *)
(* against diskMap as it is when the function returns, and diskMap is      *)
(* still the parse of a dense map.                                         *)
(***************************************************************************)
CountOf(arr, v) == Cardinality({k \in 1..Len(arr) : arr[k] = v})

SameBlocks(a, b) ==
  /\ Len(a) = Len(b)
  /\ \A v \in {a[k] : k \in 1..Len(a)} \cup {b[k] : k \in 1..Len(b)} :
       CountOf(a, v) = CountOf(b, v)

NoGapBeforeFile(arr) ==
  \A k \in 1..Len(arr) : arr[k] = "." => \A m \in (k + 1)..Len(arr) : arr[m] = "."

C25_BlocksCompacted ==
  disk.fn = "moveBlocksToLeft" =>
    /\ SameBlocks(disk.arrangedDiskMap, disk.diskMap)
    /\ disk.diskMap \in {parseDiskMap(data) : data \in DenseMaps}
    /\ disk.pc = "done" => NoGapBeforeFile(disk.arrangedDiskMap)

C25_Witness ==
  /\ disk.fn = "moveBlocksToLeft" /\ disk.pc = "done"
  /\ disk.diskMap = <<"0", ".", ".", "1", "1", ".">>
  /\ disk.arrangedDiskMap = <<"0", "1", "1", ".", ".", ".">>

(***************************************************************************)
(* Day 18 (src/days/18/mod.ts).  A point is <<x, y>>; the maze has the     *)
(* cells 0..width by 0..height.  Undefined is the value of `return;`.      *)
(***************************************************************************)
MaxSide == 2
MaxBytes == 3

Undefined == "undefined"

directions == <<<<0, 1>>, <<1, 0>>, <<0, 0 - 1>>, <<0 - 1, 0>>>>

pointToString(p) == toString(p[1]) \o "," \o toString(p[2])

(* Lines 78-85: the cells marked "#" after maxIteration bytes.              *)
computedMaze(fallenBytes, maxIteration) ==
  {fallenBytes[k] : k \in 1..maxIteration}

(* Lines 45-58: the neighbours of point that are pushed on the queue.       *)
pushed(point, walls, width, height) ==
  {q \in {<<point[1] + directions[d][1], point[2] + directions[d][2]>> : d \in 1..4} :
     /\ q[1] >= 0 /\ q[1] < width + 1 /\ q[2] >= 0 /\ q[2] < height + 1
     /\ q \notin walls}

(* findPathBFS, level by level: the queue holds the points of one distance *)
(* before those of the next, so the path returned for `end` has as many    *)
(* points as the level at which `end` is first taken from the queue, plus  *)
(* one; the value is that number of points, 0 for the empty path.          *)
RECURSIVE bfsLevels(_, _, _, _, _, _, _)
bfsLevels(level, visited, n, walls, width, height, end) ==
  IF end \in level THEN n + 1
  ELSE IF level \ visited = {} THEN 0
  ELSE bfsLevels(UNION {pushed(q, walls, width, height) : q \in level \ visited},
                 visited \cup level, n + 1, walls, width, height, end)

findPathBFS(walls, width, height, start, end) ==
  bfsLevels({start}, {}, 0, walls, width, height, end)

findBestPath(fallenBytes, width, height, maxIteration) ==
  findPathBFS(computedMaze(fallenBytes, maxIteration), width, height,
              <<0, 0>>, <<width, height>>) - 1

Cells(width, height) == (0..width) \X (0..height)

RECURSIVE ByteLists(_, _)
ByteLists(cells, n) ==
  IF n = 0 THEN {<<>>}
  ELSE ByteLists(cells, n - 1)
         \cup {Append(l, c) : l \in {x \in ByteLists(cells, n - 1) : Len(x) = n - 1},
                              c \in cells}

Distinct(l) == \A a, b \in 1..Len(l) : a # b => l[a] # l[b]

InitMemory ==
  /\ KeypadOff
  /\ \E side \in 1..MaxSide :
       memory \in {[pc |-> "loop", fallenBytes |-> l, width |-> side, height |-> side,
                    i |-> 0, result |-> Undefined] :
                     l \in {x \in ByteLists(Cells(side, side) \ {<<0, 0>>}, MaxBytes) :
                              Distinct(x)}}
  /\ disk = Off /\ wires = Off /\ computer = Off /\ guard = Off /\ warehouse = Off

notMemory == <<keypadVars, disk, wires, computer, guard, warehouse>>

(* Lines 109-114: one iteration of the while loop.                          *)
TryPrefix ==
  /\ memory.pc = "loop" /\ memory.i < Len(memory.fallenBytes)
  /\ memory' =
       IF findBestPath(memory.fallenBytes, memory.width, memory.height, memory.i) = 0 - 1
       THEN [memory EXCEPT !.pc = "done",
                           !.result = pointToString(memory.fallenBytes[memory.i])]
       ELSE [memory EXCEPT !.i = @ + 1]
  /\ UNCHANGED notMemory

(* Line 116: the loop ended, undefined is returned.                         *)
NoByteFound ==
  /\ memory.pc = "loop" /\ memory.i >= Len(memory.fallenBytes)
  /\ memory' = [memory EXCEPT !.pc = "done", !.result = Undefined]
  /\ UNCHANGED notMemory

NextMemory == TryPrefix \/ NoByteFound

SpecMemory == InitMemory /\ [][NextMemory]_vars

(***************************************************************************)
(* C26: findFirstImpossiblePathByte returns the coordinates of the first   *)
(* byte of the list whose fall makes the corner (width, height)            *)
(* unreachable from (0, 0) through free cells, and undefined only if no    *)
(* byte of the list, the last one included, cuts the path.                 *)
(***************************************************************************)
RECURSIVE Grow(_, _)
Grow(reached, free) ==
  LET more == {c \in free : \E r \in reached :
                 Abs(c[1] - r[1]) + Abs(c[2] - r[2]) = 1}
  IN IF more \subseteq reached THEN reached ELSE Grow(reached \cup more, free)

CornerReachable(fallenBytes, k, width, height) ==
  LET free == Cells(width, height) \ {fallenBytes[n] : n \in 1..k}
  IN <<0, 0>> \in free /\ <<width, height>> \in Grow({<<0, 0>>}, free)

CuttingBytes(fallenBytes, width, height) ==
  {k \in 1..Len(fallenBytes) : ~CornerReachable(fallenBytes, k, width, height)}

C26_FirstCuttingByte ==
  memory.pc = "done" =>
    LET cuts == CuttingBytes(memory.fallenBytes, memory.width, memory.height)
    IN memory.result =
         IF cuts = {} THEN Undefined
         ELSE pointToString(memory.fallenBytes[FirstOf(cuts)])

(***************************************************************************)
(* Day 24 (src/days/24/mod.ts).  wireValues is the object of the code: a   *)
(* wire that is not in its DOMAIN is undefined.  A gate is known by its    *)
(* index in `gates` (the Set holds the gate objects, in insertion order);  *)
(* snapshot is Array.from(unresolvedGates), k the position of the for loop *)
(* in it.  Wire values are bits, as parseInt gives them.                   *)
(***************************************************************************)
MaxGates == 2

Operators == {"AND", "OR", "XOR"}

GateSet ==
  [input1 : {"a", "c"}, input2 : {"b", "d"}, operation : Operators,
   output : {"c", "d"}]

GateLists == UNION {[1..n -> GateSet] : n \in 0..MaxGates}

InitialWireValues == [{"a", "b"} -> {0, 1}] \cup [{"a"} -> {0, 1}]

(* Lines 58-68: the operators &, | and ^ on bits.                           *)
applyOperation(operation, v1, v2) ==
  IF operation = "AND" THEN v1 * v2
  ELSE IF operation = "OR" THEN (IF v1 + v2 > 0 THEN 1 ELSE 0)
  ELSE (v1 + v2) % 2

Without(seq, x) == SelectSeq(seq, LAMBDA y : y # x)

InitWires ==
  /\ KeypadOff
  /\ wires \in {[pc |-> "while", wireValues |-> w, gates |-> g,
                  unresolvedGates |-> [n \in 1..Len(g) |-> n],
                  snapshot |-> <<>>, k |-> 0] :
                   w \in InitialWireValues, g \in GateLists}
  /\ disk = Off /\ memory = Off /\ computer = Off /\ guard = Off /\ warehouse = Off

notWires == <<keypadVars, disk, memory, computer, guard, warehouse>>

(* Lines 53-54: the while test succeeds and a sweep begins.                 *)
SweepStart ==
  /\ wires.pc = "while" /\ Len(wires.unresolvedGates) > 0
  /\ wires' = [wires EXCEPT !.pc = "for", !.snapshot = wires.unresolvedGates, !.k = 0]
  /\ UNCHANGED notWires

(* Lines 55-70: one iteration of the for loop.                              *)
VisitGate ==
  /\ wires.pc = "for" /\ wires.k < Len(wires.snapshot)
  /\ LET gate == wires.gates[wires.snapshot[wires.k + 1]]
         last == wires.k + 1 = Len(wires.snapshot)
         resolved == gate.input1 \in DOMAIN wires.wireValues
                       /\ gate.input2 \in DOMAIN wires.wireValues
     IN wires' =
          [wires EXCEPT
             !.wireValues =
                IF resolved
                THEN [w \in DOMAIN @ \cup {gate.output} |->
                        IF w = gate.output
                        THEN applyOperation(gate.operation, @[gate.input1], @[gate.input2])
                        ELSE @[w]]
                ELSE @,
             !.unresolvedGates =
                IF resolved THEN Without(@, wires.snapshot[wires.k + 1]) ELSE @,
             !.k = IF last THEN 0 ELSE @ + 1,
             !.snapshot = IF last THEN <<>> ELSE @,
             !.pc = IF last THEN "while" ELSE "for"]
  /\ UNCHANGED notWires

(* Lines 53 and 74: no gate is left, wireValues is returned.                *)
GatesReturn ==
  /\ wires.pc = "while" /\ Len(wires.unresolvedGates) = 0
  /\ wires' = [wires EXCEPT !.pc = "done"]
  /\ UNCHANGED notWires

NextWires == SweepStart \/ VisitGate \/ GatesReturn

SpecWires == InitWires /\ [][NextWires]_vars /\ WF_vars(NextWires)

(***************************************************************************)
(* C27: for every set of initial wire values and every list of gates,      *)
(* simulateGates terminates, and on return every gate's output wire holds  *)
(* the value of its operation applied to the final values of its two       *)
(* input wires.                                                            *)
(***************************************************************************)
GateHolds(gate, values) ==
  /\ {gate.input1, gate.input2, gate.output} \subseteq DOMAIN values
  /\ values[gate.output]
       = applyOperation(gate.operation, values[gate.input1], values[gate.input2])

C27_GatesTerminateResolved ==
  /\ <>(wires.pc = "done")
  /\ [](wires.pc = "done" =>
          \A n \in 1..Len(wires.gates) : GateHolds(wires.gates[n], wires.wireValues))

(***************************************************************************)
(* Day 17 (src/days/17/mod.ts).  Registers and program entries are         *)
(* bigints, modelled by integers below 2^31 and not negative in the        *)
(* registers.  A call that throws has the value Thrown(message).  The      *)
(* recursion of findLowestInitialValueForA is the stack of its frames:     *)
(* value, iteration and the loop variable a.                               *)
(***************************************************************************)
MaxScan == 512

MaxPasses == 64

Thrown(message) == [throws |-> message]

(* For a record of registers: the value is a thrown error instead.         *)
Throws(v) == "throws" \in DOMAIN v

(* The quotient and the remainder of bigints round towards zero.            *)
Quotient(a, d) == IF a >= 0 THEN a \div d ELSE 0 - ((0 - a) \div d)

Remainder(a, d) == IF a >= 0 THEN a % d ELSE 0 - ((0 - a) % d)

RECURSIVE BitXor(_, _)
BitXor(x, y) ==
  IF x = 0 THEN y
  ELSE IF y = 0 THEN x
  ELSE ((x + y) % 2) + 2 * BitXor(x \div 2, y \div 2)

getComboOperandValue(operand, registers) ==
  IF operand <= 3 THEN operand
  ELSE IF operand = 4 THEN registers.A
  ELSE IF operand = 5 THEN registers.B
  ELSE IF operand = 6 THEN registers.C
  ELSE Thrown("Error: Invalid combo operand")

(* 2n ** e throws for e < 0 and for e >= 2^30, the largest bigint.          *)
divisionThrows(operand, registers) ==
  \/ operand > 6
  \/ getComboOperandValue(operand, registers) < 0
  \/ getComboOperandValue(operand, registers) >= 1073741824

(* registers.A / 2n ** e; 2^e exceeds every A of the model when e > 30.     *)
division(operand, registers) ==
  IF operand > 6 THEN getComboOperandValue(operand, registers)
  ELSE IF getComboOperandValue(operand, registers) < 0
       THEN Thrown("RangeError: Exponent must be non-negative")
  ELSE IF getComboOperandValue(operand, registers) >= 1073741824
       THEN Thrown("RangeError: Maximum BigInt size exceeded")
  ELSE IF getComboOperandValue(operand, registers) > 30 THEN 0
  ELSE Quotient(registers.A, 2 ^ getComboOperandValue(operand, registers))

(* The registers after the operation, or the error it throws.               *)
operationByOpcode(opcode, operand, registers) ==
  CASE opcode = 0 -> IF divisionThrows(operand, registers)
                     THEN division(operand, registers)
                     ELSE [registers EXCEPT !.A = division(operand, registers)]
    [] opcode = 6 -> IF divisionThrows(operand, registers)
                     THEN division(operand, registers)
                     ELSE [registers EXCEPT !.B = division(operand, registers)]
    [] opcode = 7 -> IF divisionThrows(operand, registers)
                     THEN division(operand, registers)
                     ELSE [registers EXCEPT !.C = division(operand, registers)]
    [] opcode = 1 -> [registers EXCEPT !.B = BitXor(@, operand)]
    [] opcode = 2 -> IF operand > 6
                     THEN getComboOperandValue(operand, registers)
                     ELSE [registers EXCEPT
                             !.B = Remainder(getComboOperandValue(operand, registers), 8)]
    [] opcode = 4 -> [registers EXCEPT !.B = BitXor(@, registers.C)]
    [] opcode = 5 -> IF operand < 7 THEN registers
                     ELSE Thrown("Error: Invalid operand for OUT instruction")
    [] opcode = 3 -> registers
    [] OTHER -> Thrown("TypeError: operationByOpcode[opcode] is not a function")

(* The array output after the operation, or the error OUT throws.           *)
outputOf(opcode, operand, registers, output) ==
  IF opcode = 5
  THEN IF operand < 7
       THEN Append(output, Remainder(getComboOperandValue(operand, registers), 8))
       ELSE Thrown("Error: Invalid operand for OUT instruction")
  ELSE output

(* The value of instruction after Number(undefined).                        *)
NaN == "NaN"

(* The error thrown by the operation of opcode on the operand undefined,    *)
(* which the last entry of a program of odd length gets; JNZ and BXC do not *)
(* read their operand and throw nothing.                                    *)
withoutOperand(opcode) ==
  CASE opcode \in {3, 4} -> ""
    [] opcode \in {0, 2, 6, 7} -> "Error: Invalid combo operand"
    [] opcode = 5 -> "Error: Invalid operand for OUT instruction"
    [] opcode = 1 -> "TypeError: Cannot convert undefined to a BigInt"
    [] OTHER -> "TypeError: operationByOpcode[opcode] is not a function"

(* Lines 148-155: one pass of the loop.  A machine is the state of the     *)
(* loop: registers, instruction, output; throws is the message of the      *)
(* error that ended the loop, halted says that the loop is over.  On the   *)
(* last entry of a program of odd length a taken jump leaves instruction   *)
(* at NaN, which ends the loop; JNZ with A = 0 does nothing and BXC does   *)
(* B ^= C, both go on to instruction + 2.                                  *)
pass(m, program) ==
  IF m.instruction >= Len(program) THEN [m EXCEPT !.halted = TRUE]
  ELSE IF m.instruction < 0
  THEN [m EXCEPT !.halted = TRUE,
                 !.throws = "TypeError: operationByOpcode[opcode] is not a function"]
  ELSE IF m.instruction + 2 > Len(program)
  THEN IF program[m.instruction + 1] = 3 /\ m.registers.A # 0
       THEN [m EXCEPT !.halted = TRUE, !.instruction = NaN]
       ELSE IF withoutOperand(program[m.instruction + 1]) # ""
       THEN [m EXCEPT !.halted = TRUE,
                      !.throws = withoutOperand(program[m.instruction + 1])]
       ELSE [m EXCEPT !.registers = operationByOpcode(program[m.instruction + 1], 0,
                                                      m.registers),
                      !.instruction = m.instruction + 2]
  ELSE IF program[m.instruction + 1] = 3 /\ m.registers.A # 0
  THEN [m EXCEPT !.instruction = program[m.instruction + 2]]
  ELSE IF Throws(operationByOpcode(program[m.instruction + 1],
                                   program[m.instruction + 2], m.registers))
  THEN [m EXCEPT !.halted = TRUE,
                 !.throws = operationByOpcode(program[m.instruction + 1],
                                              program[m.instruction + 2],
                                              m.registers).throws]
  ELSE [m EXCEPT !.registers = operationByOpcode(program[m.instruction + 1],
                                                 program[m.instruction + 2],
                                                 m.registers),
                 !.instruction = m.instruction + 2,
                 !.output = outputOf(program[m.instruction + 1],
                                     program[m.instruction + 2],
                                     m.registers, m.output)]

TheOne(S) == CHOOSE x \in S : TRUE

(* The machine after at most fuel passes of the loop, computed by halves:   *)
(* the machine after the first half is a value before the second starts.    *)
RECURSIVE passes(_, _, _)
passes(m, program, fuel) ==
  IF m.halted \/ fuel = 0 THEN m
  ELSE IF fuel = 1 THEN TheOne({pass(x, program) : x \in {m}})
  ELSE TheOne({passes(half, program, fuel - fuel \div 2) :
                 half \in {passes(m, program, fuel \div 2)}})

(* Lines 147-156: the loop from instruction on.  No run of the model takes  *)
(* more than MaxPasses passes.                                              *)
runFrom(registers, program, instruction, output) ==
  passes([registers |-> registers, instruction |-> instruction, output |-> output,
          throws |-> "", halted |-> FALSE], program, MaxPasses)

executeProgramThrows(registers, program) ==
  runFrom(registers, program, 0, <<>>).throws # ""

executeProgram(registers, program) ==
  IF executeProgramThrows(registers, program)
  THEN Thrown(runFrom(registers, program, 0, <<>>).throws)
  ELSE runFrom(registers, program, 0, <<>>).output

(* The programs: one or two instructions without a jump, and loops that    *)
(* shift A by three bits, print and jump back while A is not 0, among them *)
(* the example 0,3,5,4,3,0; programs with the combo operand 7, one of them *)
(* reached only when A is 0, and programs of odd length.  Every loop ends. *)
Instructions ==
  {<<opcode, operand>> : opcode \in {0, 1, 2, 4, 5, 6, 7}, operand \in 0..6}

Programs ==
  Instructions
    \cup {i \o <<5, x>> : i \in Instructions, x \in {0, 4, 5}}
    \cup {<<0, 3, 5, x, 3, 0>> : x \in 0..6}
    \cup {<<5, x, 0, 3, 3, 0>> : x \in 0..6}
    \cup {<<2, 4, 0, 3, 5, 5, 3, 0>>, <<2, 4, 1, 1, 0, 3, 5, 5, 3, 0>>}
    \cup {<<5, 7>>, <<0, 7>>, <<2, 7, 5, 5>>, <<5, 4, 0, 7>>, <<5, 0, 0, 5>>}
    \cup {<<3, 4, 5, 7>>}
    \cup {<<5, 4, 3>>, <<5, 4, 1>>, <<5, 4, 5>>, <<5, 4, 4>>}

Frame(value, iteration) == [value |-> value, iteration |-> iteration, a |-> value * 8]

(* The values of register A in the input: 0, the example's 729, and 2^30,  *)
(* which is too large an exponent for a division by 2^A.                    *)
RegisterAs == {0, 729, 1073741824}

(* output.join(","): the values are remainders by 8 of values >= 0.         *)
RECURSIVE joinFrom(_, _)
joinFrom(output, k) ==
  IF k > Len(output) THEN ""
  ELSE IF k = Len(output) THEN toString(output[k])
  ELSE toString(output[k]) \o "," \o joinFrom(output, k + 1)

join(output) == joinFrom(output, 1)

(* Lines 202-203 of main: the registers and the program of the input.       *)
InitComputer ==
  /\ KeypadOff
  /\ computer \in {[pc |-> "run", program |-> prog, registerA |-> a,
                     registerB |-> b, registerC |-> 0, programOutput |-> "",
                     stack |-> <<>>, result |-> 0 - 1, thrown |-> ""] :
                      prog \in Programs, a \in RegisterAs, b \in {0, 1}}
  /\ disk = Off /\ memory = Off /\ wires = Off /\ guard = Off /\ warehouse = Off

notComputer == <<keypadVars, disk, memory, wires, guard, warehouse>>

(* Lines 205-212 of main: the program runs on the registers of the input;   *)
(* an error it throws ends main, otherwise the search is called with 0 and  *)
(* program.length - 1.                                                      *)
RunProgram ==
  /\ computer.pc = "run"
  /\ \E run \in {runFrom([A |-> computer.registerA, B |-> computer.registerB,
                            C |-> computer.registerC], computer.program, 0, <<>>)} :
       computer' =
         IF run.throws # ""
         THEN [computer EXCEPT !.pc = "thrown", !.thrown = run.throws]
         ELSE [computer EXCEPT
                 !.pc = "search",
                 !.programOutput = join(run.output),
                 !.stack = <<Frame(0, Len(computer.program) - 1)>>]
  /\ UNCHANGED notComputer

Top == computer.stack[Len(computer.stack)]

Pop(stack) == SubSeq(stack, 1, Len(stack) - 1)

NextCandidate(stack) ==
  [stack EXCEPT ![Len(stack)] = [@ EXCEPT !.a = @ + 1]]

(* Lines 180-196: one iteration of the for loop of the innermost call.  A  *)
(* match calls the function for a and iteration - 1, which returns a at    *)
(* once when iteration - 1 < 0 (line 178); a result >= 0 is returned by    *)
(* every caller in turn (lines 193-194).  An error thrown by               *)
(* executeProgram is caught nowhere and ends the search.                   *)
TryCandidate ==
  /\ computer.pc = "search" /\ Top.a < Top.value * 8 + 8
  /\ LET registers == [A |-> Top.a, B |-> computer.registerB,
                        C |-> computer.registerC]
         output == executeProgram(registers, computer.program)
     IN computer' =
          IF executeProgramThrows(registers, computer.program)
          THEN [computer EXCEPT !.pc = "thrown", !.thrown = output.throws,
                                !.stack = <<>>]
          ELSE IF Len(output) > 0 /\ output[1] = computer.program[Top.iteration + 1]
          THEN IF Top.iteration - 1 < 0
               THEN [computer EXCEPT !.pc = "done", !.result = Top.a, !.stack = <<>>]
               ELSE [computer EXCEPT
                       !.stack = Append(@, Frame(Top.a, Top.iteration - 1))]
          ELSE [computer EXCEPT !.stack = NextCandidate(@)]
  /\ UNCHANGED notComputer

(* Line 198: the loop of the innermost call is over, it returns -1; its    *)
(* caller goes on with its next candidate.                                 *)
FrameExhausted ==
  /\ computer.pc = "search" /\ Top.a >= Top.value * 8 + 8
  /\ computer' =
       IF Len(computer.stack) = 1
       THEN [computer EXCEPT !.pc = "done", !.result = 0 - 1, !.stack = <<>>]
       ELSE [computer EXCEPT !.stack = NextCandidate(Pop(@))]
  /\ UNCHANGED notComputer

NextComputer == RunProgram \/ TryCandidate \/ FrameExhausted

SpecComputer == InitComputer /\ [][NextComputer]_vars

(***************************************************************************)
(* C28: when findLowestInitialValueForA(0, program.length - 1, program, B, *)
(* C) returns a >= 0, executeProgram from {A: a, B, C} outputs exactly the *)
(* program, and a is the lowest positive value of A that does; it returns  *)
(* -1 only when no value does.  Lower values are scanned up to MaxScan.    *)
(***************************************************************************)
OutputsItself(a, prog, b, c) ==
  /\ ~executeProgramThrows([A |-> a, B |-> b, C |-> c], prog)
  /\ executeProgram([A |-> a, B |-> b, C |-> c], prog) = prog

C28_LowestSelfPrintingA ==
  computer.pc = "done" =>
    LET quine(a) == OutputsItself(a, computer.program, computer.registerB,
                                  computer.registerC)
    IN IF computer.result >= 0
       THEN /\ computer.result > 0
            /\ quine(computer.result)
            /\ \A a \in 1..MaxScan : a < computer.result => ~quine(a)
       ELSE \A a \in 1..MaxScan : ~quine(a)

(***************************************************************************)
(* The guard patrol (src/days/1/main.ts, second program of the file).  A   *)
(* grid is a function from <<row, col>> to its character; the start cell   *)
(* holds "^" as in countObstructionPositions, every other cell "." or "#". *)
(***************************************************************************)
MaxWalls == 4

GridRows == {0, 1, 2}

GridCols == {0, 1, 2, 3}

GridCells == GridRows \X GridCols

guardDirections == <<<<0, 0 - 1>>, <<1, 0>>, <<0, 1>>, <<0 - 1, 0>>>>

turnRight_Left(direction) == (direction + 3) % 4

turnRight(direction) == (direction + 1) % 4

(* grid[nextRow]?.[nextCol]: undefined outside the grid.                    *)
cellAt(grid, row, col) ==
  IF <<row, col>> \in DOMAIN grid THEN grid[<<row, col>>] ELSE Undefined

(* Line 165: `${row},${col},${direction}`.                                   *)
stateString(row, col, direction) ==
  toString(row) \o "," \o toString(col) \o "," \o toString(direction)

testGrid(start, walls) ==
  [cell \in GridCells |->
     IF cell = start THEN "^" ELSE IF cell \in walls THEN "#" ELSE "."]

WallSets == {walls \in SUBSET GridCells : Cardinality(walls) <= MaxWalls}

InitGuard ==
  /\ KeypadOff
  /\ \E start \in GridCells, startDirection \in 0..3 :
       \E walls \in {w \in WallSets : start \notin w} :
         guard = [pc |-> "loop", grid |-> testGrid(start, walls),
                  startRow |-> start[1], startCol |-> start[2],
                  startDirection |-> startDirection,
                  row |-> start[1], col |-> start[2], direction |-> startDirection,
                  visitedStates |-> {}, result |-> FALSE]
  /\ disk = Off /\ memory = Off /\ wires = Off /\ computer = Off /\ warehouse = Off

notGuard == <<keypadVars, disk, memory, wires, computer, warehouse>>

nextRow == guard.row + guardDirections[guard.direction + 1][2]

nextCol == guard.col + guardDirections[guard.direction + 1][1]

(* Lines 165-168: the state was seen before.                                *)
LoopFound ==
  /\ guard.pc = "loop"
  /\ stateString(guard.row, guard.col, guard.direction) \in guard.visitedStates
  /\ guard' = [guard EXCEPT !.pc = "done", !.result = TRUE]
  /\ UNCHANGED notGuard

(* Lines 165-186: one pass of the loop on a state not seen before.          *)
Patrol ==
  /\ guard.pc = "loop"
  /\ stateString(guard.row, guard.col, guard.direction) \notin guard.visitedStates
  /\ LET seen == guard.visitedStates
                   \cup {stateString(guard.row, guard.col, guard.direction)}
         cell == cellAt(guard.grid, nextRow, nextCol)
     IN guard' =
          IF cell = Undefined
          THEN [guard EXCEPT !.visitedStates = seen, !.pc = "done", !.result = FALSE]
          ELSE IF cell = "#"
          THEN [guard EXCEPT !.visitedStates = seen,
                             !.direction = turnRight(guard.direction)]
          ELSE [guard EXCEPT !.visitedStates = seen,
                             !.row = nextRow, !.col = nextCol]
  /\ UNCHANGED notGuard

NextGuard == LoopFound \/ Patrol

SpecGuard == InitGuard /\ [][NextGuard]_vars /\ WF_vars(NextGuard)

(***************************************************************************)
(* C29: isLoop terminates on every grid and start state; it returns true   *)
(* exactly when the guard, who moves forward on free cells and turns right *)
(* in place in front of "#", never leaves the grid, and false exactly when *)
(* the guard's next cell falls outside the grid; the grid is not modified. *)
(* The guard of the claim walks with a heading vector; a walk that has not *)
(* left after as many steps as there are (cell, heading) pairs never will. *)
(***************************************************************************)
RightOf(heading) == <<0 - heading[2], heading[1]>>

RECURSIVE Leaves(_, _, _, _)
Leaves(grid, cell, heading, fuel) ==
  LET ahead == <<cell[1] + heading[2], cell[2] + heading[1]>>
  IN IF ahead \notin DOMAIN grid THEN TRUE
     ELSE IF fuel = 0 THEN FALSE
     ELSE IF grid[ahead] = "#" THEN Leaves(grid, cell, RightOf(heading), fuel - 1)
     ELSE Leaves(grid, ahead, heading, fuel - 1)

GuardLeaves ==
  Leaves(guard.grid, <<guard.startRow, guard.startCol>>,
         guardDirections[guard.startDirection + 1], 4 * Cardinality(DOMAIN guard.grid))

C29_IsLoopDecides ==
  /\ <>(guard.pc = "done")
  /\ [](guard.pc = "done" => (guard.result <=> ~GuardLeaves))
  /\ [][guard'.grid = guard.grid]_vars

(* The guard walks round the two free cells of a closed corridor.           *)
C29_Witness ==
  /\ guard.pc = "done" /\ guard.result
  /\ guard.startRow = 1 /\ guard.startCol = 1 /\ guard.startDirection = 1
  /\ {c \in GridCells : guard.grid[c] = "#"} = {<<1, 0>>, <<1, 3>>, <<2, 2>>, <<0, 1>>}
  /\ Cardinality(guard.visitedStates) = 6

(***************************************************************************)
(* The warehouse (src/days/3/main.ts, third program of the file).  A map   *)
(* is a function from <<row, col>> to its character, with exactly one "@". *)
(* Coordinates are <<row, col>>, directions <<dx, dy>> as in               *)
(* directionToCoords.  The cells outside the map are free.                 *)
(***************************************************************************)
MaxBoxes == 2

MaxBlocks == 2

MaxMoves == 3

MapRows == {0, 1}

MapCols == {0, 1, 2, 3}

maxCol == Cardinality(MapCols)

MapCells == MapRows \X MapCols

directionToCoords == {<<0, 0 - 1>>, <<0, 1>>, <<1, 0>>, <<0 - 1, 0>>}

Maps ==
  {[cell \in MapCells |->
      IF cell = at THEN "@" ELSE IF cell \in os THEN "O"
      ELSE IF cell \in hs THEN "#" ELSE "."] :
     at \in MapCells,
     os \in {b \in SUBSET MapCells : Cardinality(b) <= MaxBoxes},
     hs \in {w \in SUBSET MapCells : Cardinality(w) <= MaxBlocks}}

(* Lines 221-232: the cells holding char, in the order of the two loops.    *)
RECURSIVE cellsWith(_, _, _)
cellsWith(map, char, k) ==
  IF k >= Cardinality(DOMAIN map) THEN <<>>
  ELSE IF map[<<k \div maxCol, k % maxCol>>] = char
       THEN <<(<<k \div maxCol, k % maxCol>>)>> \o cellsWith(map, char, k + 1)
  ELSE cellsWith(map, char, k + 1)

Range(list) == {list[k] : k \in DOMAIN list}

findIndex(boxes, position) ==
  IF \E k \in DOMAIN boxes : boxes[k] = position
  THEN CHOOSE k \in DOMAIN boxes :
         /\ boxes[k] = position
         /\ \A j \in DOMAIN boxes : boxes[j] = position => k <= j
  ELSE 0

Shifted(element, direction) ==
  <<element[1] + direction[2], element[2] + direction[1]>>

RECURSIVE move_ThroughWalls(_, _, _, _)
move_ThroughWalls(element, direction, walls, boxes) ==
  IF Shifted(element, direction) \in Range(walls) /\ element \notin Range(boxes)
  THEN [doesMove |-> FALSE, boxes |-> boxes]
  ELSE IF findIndex(boxes, Shifted(element, direction)) > 0
  THEN LET boxIndex == findIndex(boxes, Shifted(element, direction))
           pushed2 == move_ThroughWalls(boxes[boxIndex], direction, walls, boxes)
       IN IF pushed2.doesMove
          THEN [doesMove |-> TRUE,
                boxes |-> [pushed2.boxes EXCEPT
                             ![boxIndex] = Shifted(pushed2.boxes[boxIndex], direction)]]
          ELSE pushed2
  ELSE [doesMove |-> TRUE, boxes |-> boxes]

(* Lines 191-205; the array boxes is changed in place, so the result holds  *)
(* the returned boolean and the array after the call.                       *)
RECURSIVE move(_, _, _, _)
move(element, direction, walls, boxes) ==
  IF Shifted(element, direction) \in Range(walls)
  THEN [doesMove |-> FALSE, boxes |-> boxes]
  ELSE IF findIndex(boxes, Shifted(element, direction)) > 0
  THEN LET boxIndex == findIndex(boxes, Shifted(element, direction))
           after == move(boxes[boxIndex], direction, walls, boxes)
       IN IF after.doesMove
          THEN [doesMove |-> TRUE,
                boxes |-> [after.boxes EXCEPT
                             ![boxIndex] = Shifted(after.boxes[boxIndex], direction)]]
          ELSE after
  ELSE [doesMove |-> TRUE, boxes |-> boxes]

InitWarehouse ==
  /\ KeypadOff
  /\ \E map \in Maps :
       warehouse = [pc |-> "moves", walls |-> cellsWith(map, "#", 0),
                    boxes |-> cellsWith(map, "O", 0),
                    robot |-> cellsWith(map, "@", 0)[1],
                    direction |-> <<0, 0>>, doesMove |-> FALSE, moves |-> 0]
  /\ disk = Off /\ memory = Off /\ wires = Off /\ computer = Off /\ guard = Off

notWarehouse == <<keypadVars, disk, memory, wires, computer, guard>>

(* Lines 234-238: one direction of the list.                                *)
RobotMove ==
  /\ warehouse.pc = "moves" /\ warehouse.moves < MaxMoves
  /\ \E direction \in directionToCoords :
       LET after == move(warehouse.robot, direction, warehouse.walls, warehouse.boxes)
       IN warehouse' = [warehouse EXCEPT
                          !.boxes = after.boxes,
                          !.robot = IF after.doesMove THEN Shifted(@, direction) ELSE @,
                          !.direction = direction,
                          !.doesMove = after.doesMove,
                          !.moves = @ + 1]
  /\ UNCHANGED notWarehouse

(* Line 240: the list of directions is over.                                *)
MovesOver ==
  /\ warehouse.pc = "moves"
  /\ warehouse' = [warehouse EXCEPT !.pc = "done"]
  /\ UNCHANGED notWarehouse

NextWarehouse == RobotMove \/ MovesOver

SpecWarehouse == InitWarehouse /\ [][NextWarehouse]_vars

(***************************************************************************)
(* C30: after any sequence of robot moves no two boxes share a cell, no    *)
(* box and not the robot is on a wall cell or on a cell of another box or  *)
(* of the robot, and the number of boxes is unchanged; a move whose chain  *)
(* of pushed boxes ends at a wall returns false and leaves the robot and   *)
(* every box in place, a successful move shifts the robot and exactly the  *)
(* contiguous chain of boxes ahead of it by one cell.                      *)
(***************************************************************************)
Ahead(from, direction, n) ==
  <<from[1] + n * direction[2], from[2] + n * direction[1]>>

(* The number of boxes standing in a row right ahead of the robot.          *)
ChainLength(robot, direction, boxes) ==
  CHOOSE n \in 0..Len(boxes) :
    /\ \A k \in 1..n : Ahead(robot, direction, k) \in Range(boxes)
    /\ Ahead(robot, direction, n + 1) \notin Range(boxes)

Chain(robot, direction, boxes) ==
  {Ahead(robot, direction, k) : k \in 1..ChainLength(robot, direction, boxes)}

ChainBlocked(robot, direction, walls, boxes) ==
  Ahead(robot, direction, ChainLength(robot, direction, boxes) + 1) \in Range(walls)

WarehouseSound ==
  warehouse.pc # "off" =>
    /\ \A i, j \in DOMAIN warehouse.boxes :
         warehouse.boxes[i] = warehouse.boxes[j] => i = j
    /\ Range(warehouse.boxes) \cap Range(warehouse.walls) = {}
    /\ warehouse.robot \notin Range(warehouse.walls) \cup Range(warehouse.boxes)

MoveAsClaimed ==
  warehouse'.moves = warehouse.moves + 1 =>
    LET direction == warehouse'.direction
        chain == Chain(warehouse.robot, direction, warehouse.boxes)
    IN /\ Len(warehouse'.boxes) = Len(warehouse.boxes)
       /\ warehouse'.walls = warehouse.walls
       /\ IF ChainBlocked(warehouse.robot, direction, warehouse.walls, warehouse.boxes)
          THEN /\ ~warehouse'.doesMove
               /\ warehouse'.robot = warehouse.robot
               /\ warehouse'.boxes = warehouse.boxes
          ELSE /\ warehouse'.doesMove
               /\ warehouse'.robot = Shifted(warehouse.robot, direction)
               /\ \A k \in DOMAIN warehouse.boxes :
                    warehouse'.boxes[k] =
                      IF warehouse.boxes[k] \in chain
                      THEN Shifted(warehouse.boxes[k], direction)
                      ELSE warehouse.boxes[k]

C30_WarehouseMoves == [](WarehouseSound) /\ [][MoveAsClaimed]_vars

(* The robot pushed a chain of two boxes one cell to the right, and a later *)
(* move against a wall was refused.                                         *)
C30_Witness ==
  /\ warehouse.pc = "moves" /\ warehouse.moves = 2
  /\ warehouse.robot = <<0, 2>>
  /\ warehouse.boxes = <<(<<0, 3>>), (<<0, 4>>)>>
  /\ warehouse.walls = <<(<<1, 2>>)>>
  /\ warehouse.direction = <<0, 1>> /\ ~warehouse.doesMove

(***************************************************************************)
(* The step-by-step build and the function agree: when line 108 is reached *)
(* the table is TableOf(layers), and the value returned is                 *)
(* countMinimalKeyPresses(sequence, layers).                               *)
(***************************************************************************)
StepsAgreeWithFunction ==
  /\ pc \in {"return", "done"} => movementCosts = Tables[layers]
  /\ pc = "done" => result = countMinimalKeyPresses(sequence, layers)

====
